---------------------------- MODULE Spec2Model ----------------------------
(***************************************************************************)
(* Model of the xllm obfuscating relay (xllm-proxy/src/main.rs) and of the *)
(* client side of its stream transport (xllm/src/utils/proxy/mod.rs).      *)
(*                                                                         *)
(* Bytes are integers 0..255, byte strings are sequences of them, and text *)
(* is a TLA+ string whose characters are read with SubSeq.                 *)
(***************************************************************************)
EXTENDS Integers, Sequences, FiniteSets, TLC

(***************************************************************************)
(* Bounds of the model.                                                    *)
(***************************************************************************)
\* number of inbound connections the relay sees
MaxConns == 2
\* the nonce generator draws its last byte from 0..MaxNonce
MaxNonce == 1

(***************************************************************************)
(* Text and bytes.                                                         *)
(***************************************************************************)
\* the printable ASCII characters 32..95 and 97..126, in code order (the
\* grave accent, code 96, cannot be written in a TLA+ string and is left out)
AsciiLow == " !\"#$%&'()*+,-./0123456789:;<=>?@ABCDEFGHIJKLMNOPQRSTUVWXYZ[\\]^_"
AsciiHigh == "abcdefghijklmnopqrstuvwxyz{|}~"

Chars ==
    {SubSeq(AsciiLow, i, i) : i \in 1..Len(AsciiLow)}
        \cup {SubSeq(AsciiHigh, i, i) : i \in 1..Len(AsciiHigh)}

\* code of a character
Ord ==
    [c \in Chars |->
        IF \E i \in 1..Len(AsciiLow) : SubSeq(AsciiLow, i, i) = c
        THEN 31 + (CHOOSE i \in 1..Len(AsciiLow) : SubSeq(AsciiLow, i, i) = c)
        ELSE 96 + (CHOOSE i \in 1..Len(AsciiHigh) : SubSeq(AsciiHigh, i, i) = c)]

IsPrintable(b) == b >= 32 /\ b <= 126 /\ b # 96

\* character of a printable code
Chr(n) ==
    IF n < 96 THEN SubSeq(AsciiLow, n - 31, n - 31)
    ELSE SubSeq(AsciiHigh, n - 96, n - 96)

\* str.as_bytes()
RECURSIVE as_bytes(_)
as_bytes(s) ==
    IF Len(s) = 0 THEN <<>>
    ELSE <<Ord[SubSeq(s, 1, 1)]>> \o as_bytes(SubSeq(s, 2, Len(s)))

AllPrintable(bs) == \A i \in 1..Len(bs) : IsPrintable(bs[i])

\* the text of a byte string whose bytes are all printable
RECURSIVE from_bytes(_)
from_bytes(bs) ==
    IF Len(bs) = 0 THEN ""
    ELSE Chr(bs[1]) \o from_bytes(SubSeq(bs, 2, Len(bs)))

UpperLetters == "ABCDEFGHIJKLMNOPQRSTUVWXYZ"
LowerLetters == "abcdefghijklmnopqrstuvwxyz"

IsUpper(c) == \E i \in 1..26 : SubSeq(UpperLetters, i, i) = c
IsLower(c) == \E i \in 1..26 : SubSeq(LowerLetters, i, i) = c

LowerChar(c) ==
    IF IsUpper(c)
    THEN LET i == CHOOSE j \in 1..26 : SubSeq(UpperLetters, j, j) = c
         IN  SubSeq(LowerLetters, i, i)
    ELSE c

UpperChar(c) ==
    IF IsLower(c)
    THEN LET i == CHOOSE j \in 1..26 : SubSeq(LowerLetters, j, j) = c
         IN  SubSeq(UpperLetters, i, i)
    ELSE c

\* str::to_lowercase
RECURSIVE to_lowercase(_)
to_lowercase(s) ==
    IF Len(s) = 0 THEN ""
    ELSE LowerChar(SubSeq(s, 1, 1)) \o to_lowercase(SubSeq(s, 2, Len(s)))

\* str::to_uppercase
RECURSIVE to_uppercase(_)
to_uppercase(s) ==
    IF Len(s) = 0 THEN ""
    ELSE UpperChar(SubSeq(s, 1, 1)) \o to_uppercase(SubSeq(s, 2, Len(s)))

\* a comparison with the whole name where the prefix was meant
starts_with_whole(s, prefix) == s = prefix

\* str::starts_with
starts_with(s, prefix) ==
    /\ Len(s) >= Len(prefix)
    /\ SubSeq(s, 1, Len(prefix)) = prefix

(***************************************************************************)
(* Header Filter: is_generic_header.  The result is the returned boolean   *)
(* together with the lines the call prints.                                *)
(***************************************************************************)
\* the default arm without its diagnostic line
unknown_header_silent(header_name) == [value |-> TRUE, stdout |-> <<>>]

\* the default arm: the header is allowed and the fact is printed
unknown_header(header_name) ==
    [value |-> TRUE, stdout |-> <<"Allowing unknown header: " \o header_name>>]

is_generic_header(header_name) ==
    CASE header_name \in {"content-type", "content-length", "content-encoding"} ->
            [value |-> TRUE, stdout |-> <<>>]
      [] header_name \in {"cache-control", "expires", "etag", "last-modified"} ->
            [value |-> TRUE, stdout |-> <<>>]
      [] header_name \in {"date", "server", "connection", "keep-alive"} ->
            [value |-> TRUE, stdout |-> <<>>]
      [] header_name \in {"strict-transport-security", "x-content-type-options"} ->
            [value |-> TRUE, stdout |-> <<>>]
      [] header_name \in {"x-frame-options", "x-xss-protection"} ->
            [value |-> TRUE, stdout |-> <<>>]
      [] OTHER ->
            IF starts_with(header_name, "anthropic-") THEN [value |-> FALSE, stdout |-> <<>>]
            ELSE IF starts_with(header_name, "openai-") THEN [value |-> FALSE, stdout |-> <<>>]
            ELSE IF starts_with(header_name, "x-ratelimit") THEN [value |-> FALSE, stdout |-> <<>>]
            ELSE IF starts_with(header_name, "x-request-id") THEN [value |-> FALSE, stdout |-> <<>>]
            ELSE IF header_name \in {"request-id", "cf-ray", "cf-cache-status"}
                 THEN [value |-> FALSE, stdout |-> <<>>]
            ELSE IF header_name \in {"via", "x-robots-tag"}
                 THEN [value |-> FALSE, stdout |-> <<>>]
            ELSE unknown_header(header_name)

(***************************************************************************)
(* Result values: Ok(v) and Err(e) of anyhow::Result.                      *)
(***************************************************************************)
Ok(v) == [ok |-> TRUE, val |-> v]
Err(e) == [ok |-> FALSE, err |-> e]

(***************************************************************************)
(* serde_json::to_vec / serde_json::from_slice for the four wire structs.  *)
(* The serialization is modelled as a compact field-tagged byte form: each *)
(* field is written as its name followed by its value, in declaration      *)
(* order; text is length-prefixed, byte vectors carry a two-byte length, a *)
(* map carries its entry count.  The reader accepts exactly this form and  *)
(* rejects trailing bytes.                                                 *)
(***************************************************************************)
ser_str(s) == <<Len(s)>> \o as_bytes(s)
ser_vec(bs) == <<Len(bs) \div 256, Len(bs) % 256>> \o bs
ser_u16(n) == <<n \div 256, n % 256>>

\* the keys of a map in the order the serializer visits them
RECURSIVE key_order(_)
key_order(S) ==
    IF S = {} THEN <<>>
    ELSE LET k == CHOOSE x \in S : TRUE
         IN  <<k>> \o key_order(S \ {k})

RECURSIVE ser_entries(_, _)
ser_entries(h, ks) ==
    IF Len(ks) = 0 THEN <<>>
    ELSE ser_str(ks[1]) \o ser_str(h[ks[1]]) \o ser_entries(h, Tail(ks))

ser_map(h) == <<Cardinality(DOMAIN h)>> \o ser_entries(h, key_order(DOMAIN h))

\* readers: the value read at position p and the position after it
Read(v, p) == [ok |-> TRUE, val |-> v, next |-> p]
NoRead == [ok |-> FALSE]

de_str(bs, p) ==
    IF p > Len(bs) THEN NoRead
    ELSE LET n == bs[p]
         IN  IF p + n > Len(bs) THEN NoRead
             ELSE LET raw == SubSeq(bs, p + 1, p + n)
                  IN  IF AllPrintable(raw) THEN Read(from_bytes(raw), p + n + 1)
                      ELSE NoRead

de_vec(bs, p) ==
    IF p + 1 > Len(bs) THEN NoRead
    ELSE LET n == bs[p] * 256 + bs[p + 1]
         IN  IF p + 1 + n > Len(bs) THEN NoRead
             ELSE Read(SubSeq(bs, p + 2, p + 1 + n), p + 2 + n)

de_u16(bs, p) ==
    IF p + 1 > Len(bs) THEN NoRead
    ELSE Read(bs[p] * 256 + bs[p + 1], p + 2)

\* n map entries starting at p, added to the map h; a repeated key keeps
\* the later value
RECURSIVE de_entries(_, _, _, _)
de_entries(bs, p, n, h) ==
    IF n = 0 THEN Read(h, p)
    ELSE LET k == de_str(bs, p)
         IN  IF ~k.ok THEN NoRead
             ELSE LET v == de_str(bs, k.next)
                  IN  IF ~v.ok THEN NoRead
                      ELSE de_entries(bs, v.next, n - 1,
                              [x \in DOMAIN h \cup {k.val} |->
                                  IF x = k.val THEN v.val ELSE h[x]])

de_map(bs, p) ==
    IF p > Len(bs) THEN NoRead
    ELSE de_entries(bs, p + 1, bs[p], <<>>)

\* the position after the field name, or 0 when the name is not there
de_field(bs, p, name) ==
    LET r == de_str(bs, p)
    IN  IF r.ok /\ r.val = name THEN r.next ELSE 0

to_vec_HttpRequest(x) ==
    ser_str("method") \o ser_str(x.method)
        \o ser_str("url") \o ser_str(x.url)
        \o ser_str("headers") \o ser_map(x.headers)
        \o ser_str("body") \o ser_vec(x.body)

from_slice_HttpRequest(bs) ==
    LET p1 == de_field(bs, 1, "method")
        m  == de_str(bs, p1)
        p2 == de_field(bs, m.next, "url")
        u  == de_str(bs, p2)
        p3 == de_field(bs, u.next, "headers")
        h  == de_map(bs, p3)
        p4 == de_field(bs, h.next, "body")
        b  == de_vec(bs, p4)
    IN  IF p1 = 0 \/ ~m.ok THEN Err("Failed to deserialize")
        ELSE IF p2 = 0 \/ ~u.ok THEN Err("Failed to deserialize")
        ELSE IF p3 = 0 \/ ~h.ok THEN Err("Failed to deserialize")
        ELSE IF p4 = 0 \/ ~b.ok THEN Err("Failed to deserialize")
        ELSE IF b.next # Len(bs) + 1 THEN Err("Failed to deserialize")
        ELSE Ok([method |-> m.val, url |-> u.val, headers |-> h.val, body |-> b.val])

to_vec_HttpResponse(x) ==
    ser_str("status_code") \o ser_u16(x.status_code)
        \o ser_str("headers") \o ser_map(x.headers)
        \o ser_str("body") \o ser_vec(x.body)

from_slice_HttpResponse(bs) ==
    LET p1 == de_field(bs, 1, "status_code")
        c  == de_u16(bs, p1)
        p2 == de_field(bs, c.next, "headers")
        h  == de_map(bs, p2)
        p3 == de_field(bs, h.next, "body")
        b  == de_vec(bs, p3)
    IN  IF p1 = 0 \/ ~c.ok THEN Err("Failed to deserialize")
        ELSE IF p2 = 0 \/ ~h.ok THEN Err("Failed to deserialize")
        ELSE IF p3 = 0 \/ ~b.ok THEN Err("Failed to deserialize")
        ELSE IF b.next # Len(bs) + 1 THEN Err("Failed to deserialize")
        ELSE Ok([status_code |-> c.val, headers |-> h.val, body |-> b.val])

to_vec_ProxyRequest(x) ==
    ser_str("proxy_url") \o ser_str(x.proxy_url)
        \o ser_str("request_object") \o ser_vec(x.request_object)

from_slice_ProxyRequest(bs) ==
    LET p1 == de_field(bs, 1, "proxy_url")
        u  == de_str(bs, p1)
        p2 == de_field(bs, u.next, "request_object")
        o  == de_vec(bs, p2)
    IN  IF p1 = 0 \/ ~u.ok THEN Err("Failed to deserialize")
        ELSE IF p2 = 0 \/ ~o.ok THEN Err("Failed to deserialize")
        ELSE IF o.next # Len(bs) + 1 THEN Err("Failed to deserialize")
        ELSE Ok([proxy_url |-> u.val, request_object |-> o.val])

to_vec_ProxyResponse(x) ==
    ser_str("response_object") \o ser_vec(x.response_object)

from_slice_ProxyResponse(bs) ==
    LET p1 == de_field(bs, 1, "response_object")
        o  == de_vec(bs, p1)
    IN  IF p1 = 0 \/ ~o.ok THEN Err("Failed to deserialize")
        ELSE IF o.next # Len(bs) + 1 THEN Err("Failed to deserialize")
        ELSE Ok([response_object |-> o.val])

(***************************************************************************)
(* AES-256-GCM of the aes_gcm crate, modelled by what it does: a stream    *)
(* cipher whose keystream depends on key, nonce and position, and a        *)
(* authentication tag, a weighted sum over the ciphertext that depends on  *)
(* key and nonce.  The combining operation is addition modulo 256 and the  *)
(* tag is computed modulo the prime TagPrime.                              *)
(***************************************************************************)
\* a relay key that drifted from the client's
OBFUSCATION_KEY_drifted == as_bytes("xllm_secure_proxy_key_2025_v1.0!")

\* the pre-shared key compiled into the relay
OBFUSCATION_KEY == as_bytes("xllm_secure_proxy_key_2024_v1.0!")
\* the pre-shared key compiled into the client
client_OBFUSCATION_KEY == as_bytes("xllm_secure_proxy_key_2024_v1.0!")

\* length of the nonce that is sent in front of the ciphertext
NonceLen == 12
\* length of the authentication tag that follows the ciphertext
TagLen == 16
\* modulus of the tag computation
TagPrime == 251

keystream(key, nonce, i) ==
    (key[((i - 1) % Len(key)) + 1] * 3 + nonce[((i - 1) % Len(nonce)) + 1] * 5 + i * 7) % 256

\* the weight of position i in the tag sum, never 0 modulo TagPrime
hash_weight(key, i) == 1 + ((key[1] + key[Len(key)] + i) % (TagPrime - 1))

\* sum of the weighted ciphertext bytes lo..hi modulo TagPrime
RECURSIVE weighted_sum(_, _, _, _)
weighted_sum(ct, key, lo, hi) ==
    IF lo > hi THEN 0
    ELSE IF lo = hi THEN (ct[lo] * hash_weight(key, lo)) % TagPrime
    ELSE LET mid == (lo + hi) \div 2
         IN  (weighted_sum(ct, key, lo, mid) + weighted_sum(ct, key, mid + 1, hi)) % TagPrime

auth_tag(key, nonce, ct) ==
    LET v == (Len(ct) + 1 + weighted_sum(ct, key, 1, Len(ct))) % TagPrime
    IN  [j \in 1..TagLen |->
            (v * j + key[((j - 1) % Len(key)) + 1]
                 + nonce[((j - 1) % Len(nonce)) + 1]) % TagPrime]

\* cipher.encrypt(nonce, plaintext): ciphertext followed by the tag
Aes256Gcm_encrypt(key, nonce, plaintext) ==
    LET ct == [i \in 1..Len(plaintext) |->
                  (plaintext[i] + keystream(key, nonce, i)) % 256]
    IN  ct \o auth_tag(key, nonce, ct)

\* the keystream taken off the ciphertext bytes
stream_decrypt(key, nonce, ct) ==
    [i \in 1..Len(ct) |-> (ct[i] + 256 - keystream(key, nonce, i)) % 256]

\* cipher.decrypt(nonce, ciphertext): the plaintext, or an error when the
\* input is shorter than a tag or the tag does not match
Aes256Gcm_decrypt(key, nonce, data) ==
    IF Len(data) < TagLen THEN Err("aead::Error")
    ELSE LET ct  == SubSeq(data, 1, Len(data) - TagLen)
             tag == SubSeq(data, Len(data) - TagLen + 1, Len(data))
         IN  IF tag # auth_tag(key, nonce, ct) THEN Err("aead::Error")
             ELSE Ok(stream_decrypt(key, nonce, ct))

\* the values Aes256Gcm::generate_nonce(&mut OsRng) can return in the model
Nonces == {[i \in 1..NonceLen |-> IF i = NonceLen THEN n ELSE 0] : n \in 0..MaxNonce}

(***************************************************************************)
(* Envelope codec of the client and of the relay.  The nonce drawn from    *)
(* the random generator is a parameter.                                    *)
(***************************************************************************)
\* a length check that also turns away an input of exactly one nonce
too_short_inclusive(encrypted_data) == Len(encrypted_data) <= 12

\* the length check in front of both decrypt functions: encrypted_data.len() < 12
too_short(encrypted_data) == Len(encrypted_data) < 12

\* a client that puts the serialized request behind the nonce as it is
encrypt_request_object_plain(http_request, nonce) ==
    nonce \o to_vec_HttpRequest(http_request) \o [i \in 1..TagLen |-> 0]

\* client: encrypt_request_object
encrypt_request_object(http_request, nonce) ==
    LET request_data == to_vec_HttpRequest(http_request)
        encrypted == Aes256Gcm_encrypt(client_OBFUSCATION_KEY, nonce, request_data)
    IN  nonce \o encrypted

\* a relay that goes on with the bytes when the tag check fails
decrypt_request_object_best_effort(encrypted_data) ==
    IF Len(encrypted_data) < 12 THEN Err("Invalid encrypted data: too short")
    ELSE LET nonce_bytes == SubSeq(encrypted_data, 1, 12)
             ciphertext == SubSeq(encrypted_data, 13, Len(encrypted_data))
             decrypted == Aes256Gcm_decrypt(OBFUSCATION_KEY, nonce_bytes, ciphertext)
             bytes == IF decrypted.ok THEN decrypted.val
                      ELSE stream_decrypt(OBFUSCATION_KEY, nonce_bytes,
                               SubSeq(ciphertext, 1, Len(ciphertext) - TagLen))
             http_request == from_slice_HttpRequest(bytes)
         IN  IF Len(ciphertext) < TagLen THEN Err("Decryption failed")
             ELSE IF ~http_request.ok
                  THEN Err("Failed to deserialize decrypted request")
                  ELSE Ok(http_request.val)

\* relay: decrypt_request_object
decrypt_request_object(encrypted_data) ==
    IF too_short(encrypted_data) THEN Err("Invalid encrypted data: too short")
    ELSE LET nonce_bytes == SubSeq(encrypted_data, 1, 12)
             ciphertext == SubSeq(encrypted_data, 13, Len(encrypted_data))
             decrypted == Aes256Gcm_decrypt(OBFUSCATION_KEY, nonce_bytes, ciphertext)
         IN  IF ~decrypted.ok THEN Err("Decryption failed")
             ELSE LET http_request == from_slice_HttpRequest(decrypted.val)
                  IN  IF ~http_request.ok
                      THEN Err("Failed to deserialize decrypted request")
                      ELSE Ok(http_request.val)

\* relay: encrypt_response_object
encrypt_response_object(http_response, nonce) ==
    LET response_data == to_vec_HttpResponse(http_response)
        encrypted == Aes256Gcm_encrypt(OBFUSCATION_KEY, nonce, response_data)
    IN  nonce \o encrypted

\* client: decrypt_response_object
decrypt_response_object(encrypted_data) ==
    IF too_short(encrypted_data) THEN Err("Invalid encrypted response: too short")
    ELSE LET nonce_bytes == SubSeq(encrypted_data, 1, 12)
             ciphertext == SubSeq(encrypted_data, 13, Len(encrypted_data))
             decrypted == Aes256Gcm_decrypt(client_OBFUSCATION_KEY, nonce_bytes, ciphertext)
         IN  IF ~decrypted.ok THEN Err("Decryption failed")
             ELSE LET http_response == from_slice_HttpResponse(decrypted.val)
                  IN  IF ~http_response.ok
                      THEN Err("Failed to deserialize decrypted response")
                      ELSE Ok(http_response.val)

(***************************************************************************)
(* Forwarder: execute_http_request.                                        *)
(***************************************************************************)
\* a method match with one more arm
SupportedMethods_with_trace == {"GET", "POST", "PUT", "DELETE", "PATCH", "HEAD", "TRACE"}

\* the arms of the method match
SupportedMethods == {"GET", "POST", "PUT", "DELETE", "PATCH", "HEAD"}

\* HeaderValue::to_str: the text of a value made of visible ASCII only
HeaderValue_to_str(value) ==
    IF AllPrintable(value) THEN Ok(from_bytes(value)) ELSE Err("ToStrError")

\* a header name that keeps the letter case it arrived in
HeaderName_as_str_cased(wire_name) == wire_name

\* HeaderName::as_str: the http crate keeps header names in lower case
HeaderName_as_str(wire_name) == to_lowercase(wire_name)

\* the distinct names of a header list in order of first occurrence
RECURSIVE first_names(_, _)
first_names(hs, seen) ==
    IF Len(hs) = 0 THEN <<>>
    ELSE LET n == HeaderName_as_str(hs[1].name)
         IN  IF n \in seen THEN first_names(Tail(hs), seen)
             ELSE <<n>> \o first_names(Tail(hs), seen \cup {n})

RECURSIVE values_of(_, _)
values_of(hs, n) ==
    IF Len(hs) = 0 THEN <<>>
    ELSE IF HeaderName_as_str(hs[1].name) = n
         THEN <<[key |-> n, value |-> hs[1].value]>> \o values_of(Tail(hs), n)
         ELSE values_of(Tail(hs), n)

RECURSIVE grouped(_, _)
grouped(hs, ns) ==
    IF Len(ns) = 0 THEN <<>>
    ELSE values_of(hs, ns[1]) \o grouped(hs, Tail(ns))

\* response.headers(): the (name, value) pairs in the iteration order of the
\* header map, the values of one name together and in arrival order
HeaderMap_iter(wire_headers) == grouped(wire_headers, first_names(wire_headers, {}))

\* the name passed on as it arrived
key_as_is(key) == key

\* the name the filter is asked about: key.as_str().to_lowercase()
key_lower(key) == to_lowercase(key)

\* the loop over response.headers(): the filtered map and the lines printed
RECURSIVE extract_headers(_, _, _)
extract_headers(it, headers, out) ==
    IF Len(it) = 0 THEN [headers |-> headers, stdout |-> out]
    ELSE LET key == it[1].key
             value_str == HeaderValue_to_str(it[1].value)
         IN  IF ~value_str.ok THEN extract_headers(Tail(it), headers, out)
             ELSE LET g == is_generic_header(key_lower(key))
                  IN  IF g.value
                      THEN extract_headers(Tail(it),
                              [k \in DOMAIN headers \cup {key} |->
                                  IF k = key THEN value_str.val ELSE headers[k]],
                              out \o g.stdout)
                      ELSE extract_headers(Tail(it), headers, out \o g.stdout)

\* the HttpResponse built from a received upstream response
build_response(response) ==
    LET e == extract_headers(HeaderMap_iter(response.headers), <<>>, <<>>)
    IN  [response |-> [status_code |-> response.status_code,
                       headers |-> e.headers,
                       body |-> response.body],
         stdout |-> e.stdout \o <<"HTTP request completed">>]

\* a Forwarder that marks what it sends and drops the body
build_call_marked(http_request) ==
    LET method == to_uppercase(http_request.method)
    IN  IF method \in SupportedMethods
        THEN Ok([method |-> method,
                 url |-> http_request.url,
                 headers |-> [k \in DOMAIN http_request.headers \cup {"via"} |->
                                 IF k = "via" THEN "relay" ELSE http_request.headers[k]],
                 body |-> <<>>])
        ELSE Err("Unsupported HTTP method: " \o method)

\* the request builder for a supported method, or the error
build_call(http_request) ==
    LET method == to_uppercase(http_request.method)
    IN  IF method \in SupportedMethods
        THEN Ok([method |-> method,
                 url |-> http_request.url,
                 headers |-> http_request.headers,
                 body |-> http_request.body])
        ELSE Err("Unsupported HTTP method: " \o method)

(***************************************************************************)
(* Inputs of the model.                                                    *)
(***************************************************************************)
Conns == 1..MaxConns

\* the relay address the peers are configured with
ProxyUrl == "http://p:1"

ReqA == [method |-> "POST", url |-> "http://a/m",
         headers |-> ("x-api-key" :> "ka"), body |-> <<1, 2>>]
ReqB == [method |-> "get", url |-> "http://b/",
         headers |-> <<>>, body |-> <<>>]
ReqT == [method |-> "TRACE", url |-> "http://a/m",
         headers |-> <<>>, body |-> <<>>]

\* the requests a peer holding the key sends through the relay
ClientRequests == {ReqA, ReqB, ReqT}

ZeroNonce == [i \in 1..NonceLen |-> 0]

\* the request frame the client writes: lines 114-127 of utils/proxy/mod.rs
request_frame(http_request, nonce) ==
    to_vec_ProxyRequest([proxy_url |-> ProxyUrl,
                         request_object |-> encrypt_request_object(http_request, nonce)])

\* the byte b with bit k flipped
FlipBit(b, k) == IF (b \div (2 ^ k)) % 2 = 1 THEN b - 2 ^ k ELSE b + 2 ^ k

FlipAt(bs, i, k) == [bs EXCEPT ![i] = FlipBit(bs[i], k)]

\* frames of peers that do not follow the protocol: nothing at all, bytes
\* that are no envelope, a payload shorter than a nonce, a payload with one
\* ciphertext bit flipped, and an authentic payload that holds no request
EmptyFrame == <<>>
GarbageFrame == <<123, 34, 125>>
ShortFrame ==
    to_vec_ProxyRequest([proxy_url |-> ProxyUrl, request_object |-> <<1, 2, 3, 4, 5>>])
TamperedFrame ==
    to_vec_ProxyRequest([proxy_url |-> ProxyUrl,
        request_object |-> FlipAt(encrypt_request_object(ReqA, ZeroNonce), NonceLen + 1, 0)])
BadInnerFrame ==
    to_vec_ProxyRequest([proxy_url |-> ProxyUrl,
        request_object |-> ZeroNonce \o
            Aes256Gcm_encrypt(client_OBFUSCATION_KEY, ZeroNonce, <<1, 2, 3>>)])

HonestFrames == {request_frame(x, ZeroNonce) : x \in ClientRequests}
HostileFrames == {EmptyFrame, GarbageFrame, ShortFrame, TamperedFrame, BadInnerFrame}
ClientFrames == HonestFrames \cup HostileFrames

\* what the upstream servers answer
RespA == [status_code |-> 200,
          headers |-> <<[name |-> "Content-Type", value |-> as_bytes("a/json")],
                        [name |-> "anthropic-ratelimit-remaining", value |-> as_bytes("10")],
                        [name |-> "x-up", value |-> as_bytes("1")]>>,
          body |-> <<123, 125>>]
RespB == [status_code |-> 404,
          headers |-> <<[name |-> "server", value |-> <<99, 233>>],
                        [name |-> "ETag", value |-> as_bytes("e1")],
                        [name |-> "X-Request-Id", value |-> as_bytes("r")],
                        [name |-> "etag", value |-> as_bytes("e2")]>>,
          body |-> <<>>]
UpstreamResponses == {RespA, RespB}

\* the answers the server behind a URL gives
answers_of(url) ==
    IF url = ReqA.url THEN {RespA} ELSE IF url = ReqB.url THEN {RespB} ELSE {}

(***************************************************************************)
(* State.                                                                  *)
(***************************************************************************)
VARIABLES
    mainPc,              \* relay main: "bind", "accept" or "exit"
    cst,                 \* connection c: "init", "connected", "shutdown", "aborted", "reset"
    inbuf,               \* bytes the peer wrote to connection c
    outbuf,              \* bytes the relay wrote to connection c
    closed,              \* the relay dropped its end of connection c
    pc,                  \* state of the exchange on connection c
    buffer,              \* handle_client: buffer
    http_request,        \* handle_client: http_request (none or one)
    calls,               \* outbound calls issued for connection c
    upstream,            \* what the upstream answered (none or one)
    http_response,       \* handle_client: http_response (none or one)
    encrypted_response,  \* handle_client: encrypted_response
    stdout,              \* lines printed while handling connection c
    filt,                \* header filter under test
    codec,               \* envelope codec under test
    client               \* the command-line client xllm

relayVars == <<mainPc>>
wireVars == <<cst, inbuf, outbuf, closed>>
taskVars == <<pc, buffer, http_request, calls, upstream, http_response,
              encrypted_response, stdout>>
vars == <<mainPc, cst, inbuf, outbuf, closed, pc, buffer,
          http_request, calls, upstream, http_response, encrypted_response,
          stdout, filt, codec, client>>

Terminal == {"DONE", "FAILED"}

FilterIdle == [step |-> "off"]
CodecIdle == [step |-> "off"]
ClientIdle == [pc |-> "off"]

Init ==
    /\ mainPc = "bind"
    /\ cst = [c \in Conns |-> "init"]
    /\ inbuf = [c \in Conns |-> <<>>]
    /\ outbuf = [c \in Conns |-> <<>>]
    /\ closed = [c \in Conns |-> FALSE]
    /\ pc = [c \in Conns |-> "NONE"]
    /\ buffer = [c \in Conns |-> <<>>]
    /\ http_request = [c \in Conns |-> <<>>]
    /\ calls = [c \in Conns |-> <<>>]
    /\ upstream = [c \in Conns |-> <<>>]
    /\ http_response = [c \in Conns |-> <<>>]
    /\ encrypted_response = [c \in Conns |-> <<>>]
    /\ stdout = [c \in Conns |-> <<>>]
    /\ filt = FilterIdle
    /\ codec = CodecIdle
    /\ client = ClientIdle

(***************************************************************************)
(* Relay main: bind, then the accept loop.                                 *)
(***************************************************************************)
\* TcpListener::bind succeeds
Bind ==
    /\ mainPc = "bind"
    /\ mainPc' = "accept"
    /\ UNCHANGED <<wireVars, taskVars, filt, codec, client>>

\* TcpListener::bind fails and main returns the error
BindFail ==
    /\ mainPc = "bind"
    /\ mainPc' = "exit"
    /\ UNCHANGED <<wireVars, taskVars, filt, codec, client>>

\* the relay process runs: tasks exist only while main is in its loop
running == mainPc = "accept"

\* a loop that awaits each handler in line
handlers_joined_inline == {d \in Conns : pc[d] # "NONE"}

\* the handlers the accept loop waits for before it accepts again:
\* tokio::spawn detaches the handler, so there are none
handlers_joined == {}

\* a handler that ends the process when its exchange fails
main_after_failure_exit == "exit"

\* main after a handler gave up its exchange: the handler prints the
\* failure and returns Ok(()), the loop is not touched
main_after_failure == mainPc

\* a buffer shared by all handlers
request_bytes_shared(c) == buffer[1]

\* the bytes a handler decodes: its own buffer
request_bytes(c) == buffer[c]

accept_ready ==
    /\ mainPc = "accept"
    /\ \A d \in handlers_joined : pc[d] \in Terminal

\* listener.accept() returns Ok: the handler is spawned as its own task
Accept(c) ==
    /\ accept_ready
    /\ cst[c] \in {"connected", "shutdown"}
    /\ pc[c] = "NONE"
    /\ pc' = [pc EXCEPT ![c] = "AWAIT_REQUEST"]
    /\ stdout' = [stdout EXCEPT ![c] = Append(@, "New connection")]
    /\ UNCHANGED <<relayVars, wireVars, buffer, http_request, calls, upstream,
                   http_response, encrypted_response, filt, codec, client>>

\* a loop that gives up when accept fails
AcceptError_fatal(c) ==
    /\ accept_ready
    /\ cst[c] = "connected"
    /\ pc[c] = "NONE"
    /\ cst' = [cst EXCEPT ![c] = "aborted"]
    /\ mainPc' = "exit"
    /\ UNCHANGED <<inbuf, outbuf, closed, taskVars, filt, codec, client>>

\* listener.accept() returns Err for a connection that was aborted while it
\* waited to be accepted: the loop prints the error and goes on
AcceptError(c) ==
    /\ accept_ready
    /\ cst[c] = "connected"
    /\ pc[c] = "NONE"
    /\ cst' = [cst EXCEPT ![c] = "aborted"]
    /\ UNCHANGED <<relayVars, inbuf, outbuf, closed, taskVars, filt, codec, client>>

(***************************************************************************)
(* The peer of a connection.  Connections are numbered in the order in     *)
(* which they are opened.                                                  *)
(***************************************************************************)
\* TcpStream::connect succeeds once the relay listens
ClientConnect(c) ==
    /\ mainPc = "accept"
    /\ cst[c] = "init"
    /\ \A d \in Conns : d < c => cst[d] # "init"
    /\ cst' = [cst EXCEPT ![c] = "connected"]
    /\ UNCHANGED <<relayVars, inbuf, outbuf, closed, taskVars, filt, codec, client>>

\* write_all of one frame and shutdown of the write side: the relay sees
\* the bytes and the end of input together, when read_to_end returns
ClientSend(c, frame) ==
    /\ cst[c] = "connected"
    /\ cst' = [cst EXCEPT ![c] = "shutdown"]
    /\ inbuf' = [inbuf EXCEPT ![c] = frame]
    /\ UNCHANGED <<relayVars, outbuf, closed, taskVars, filt, codec, client>>

(***************************************************************************)
(* handle_client, one action per suspension point.                         *)
(***************************************************************************)
\* a handler without the test for an empty buffer
is_empty_skipped(bytes) == FALSE

\* buffer.is_empty()
is_empty(bytes) == Len(bytes) = 0

\* read_to_end returns; an empty buffer ends the exchange
ReadToEnd(c) ==
    /\ running
    /\ pc[c] = "AWAIT_REQUEST"
    /\ cst[c] = "shutdown"
    /\ buffer' = [buffer EXCEPT ![c] = inbuf[c]]
    /\ IF is_empty(inbuf[c])
       THEN /\ pc' = [pc EXCEPT ![c] = "FAILED"]
            /\ stdout' = [stdout EXCEPT ![c] = Append(@, "Empty request")]
            /\ closed' = [closed EXCEPT ![c] = TRUE]
            /\ mainPc' = main_after_failure
       ELSE /\ pc' = [pc EXCEPT ![c] = "DECODE"]
            /\ UNCHANGED <<stdout, closed, mainPc>>
    /\ UNCHANGED <<cst, inbuf, outbuf, http_request, calls, upstream,
                   http_response, encrypted_response, filt, codec, client>>

\* read_to_end returns Err because the peer reset the connection: the
\* handler returns the error and its task prints it
ReadError(c) ==
    /\ running
    /\ pc[c] = "AWAIT_REQUEST"
    /\ cst[c] = "connected"
    /\ cst' = [cst EXCEPT ![c] = "reset"]
    /\ pc' = [pc EXCEPT ![c] = "FAILED"]
    /\ stdout' = [stdout EXCEPT ![c] = Append(@, "Error handling client")]
    /\ closed' = [closed EXCEPT ![c] = TRUE]
    /\ mainPc' = main_after_failure
    /\ UNCHANGED <<inbuf, outbuf, buffer, http_request, calls, upstream,
                   http_response, encrypted_response, filt, codec, client>>

\* the envelope is parsed and its payload decrypted
Decode(c) ==
    /\ running
    /\ pc[c] = "DECODE"
    /\ LET proxy_request == from_slice_ProxyRequest(request_bytes(c))
       IN  IF ~proxy_request.ok
           THEN /\ pc' = [pc EXCEPT ![c] = "FAILED"]
                /\ stdout' = [stdout EXCEPT ![c] =
                                 Append(@, "Failed to deserialize request")]
                /\ closed' = [closed EXCEPT ![c] = TRUE]
                /\ mainPc' = main_after_failure
                /\ UNCHANGED http_request
           ELSE LET req == decrypt_request_object(proxy_request.val.request_object)
                IN  IF ~req.ok
                    THEN /\ pc' = [pc EXCEPT ![c] = "FAILED"]
                         /\ stdout' = [stdout EXCEPT ![c] =
                                 Append(@, "Failed to decrypt request: " \o req.err)]
                         /\ closed' = [closed EXCEPT ![c] = TRUE]
                         /\ mainPc' = main_after_failure
                         /\ UNCHANGED http_request
                    ELSE /\ pc' = [pc EXCEPT ![c] = "FORWARD"]
                         /\ http_request' = [http_request EXCEPT ![c] = <<req.val>>]
                         /\ stdout' = [stdout EXCEPT ![c] = Append(@, "Decrypted request")]
                         /\ UNCHANGED <<closed, mainPc>>
    /\ UNCHANGED <<cst, inbuf, outbuf, buffer, calls, upstream,
                   http_response, encrypted_response, filt, codec, client>>

\* a handler that sends the request to the address in the envelope
forwarded_request_routed(c) ==
    [http_request[c][1] EXCEPT
        !.url = from_slice_ProxyRequest(buffer[c]).val.proxy_url]

\* the argument of execute_http_request: the decrypted request
forwarded_request(c) == http_request[c][1]

\* execute_http_request up to send(): an unsupported method ends the
\* exchange, otherwise the outbound call is issued
ForwardSend(c) ==
    /\ running
    /\ pc[c] = "FORWARD"
    /\ Len(calls[c]) = 0
    /\ LET call == build_call(forwarded_request(c))
       IN  IF ~call.ok
           THEN /\ pc' = [pc EXCEPT ![c] = "FAILED"]
                /\ stdout' = [stdout EXCEPT ![c] =
                                 Append(@, "HTTP request failed: " \o call.err)]
                /\ closed' = [closed EXCEPT ![c] = TRUE]
                /\ mainPc' = main_after_failure
                /\ UNCHANGED calls
           ELSE /\ calls' = [calls EXCEPT ![c] = Append(@, call.val)]
                /\ UNCHANGED <<pc, stdout, closed, mainPc>>
    /\ UNCHANGED <<cst, inbuf, outbuf, buffer, http_request, upstream,
                   http_response, encrypted_response, filt, codec, client>>

\* a handler that writes the response as soon as it has it, unencrypted
UpstreamReply_write_through(c, response) ==
    /\ running
    /\ pc[c] = "FORWARD"
    /\ Len(calls[c]) > 0
    /\ response \in answers_of(calls[c][1].url)
    /\ LET built == build_response(response)
       IN  /\ upstream' = [upstream EXCEPT ![c] = <<response>>]
           /\ http_response' = [http_response EXCEPT ![c] = <<built.response>>]
           /\ stdout' = [stdout EXCEPT ![c] = @ \o built.stdout]
           /\ outbuf' = [outbuf EXCEPT ![c] = to_vec_HttpResponse(built.response)]
    /\ pc' = [pc EXCEPT ![c] = "DONE"]
    /\ closed' = [closed EXCEPT ![c] = TRUE]
    /\ UNCHANGED <<relayVars, cst, inbuf, buffer, http_request, calls,
                   encrypted_response, filt, codec, client>>

\* send() returns the upstream response; its headers are filtered and its
\* body is read
UpstreamReply(c, response) ==
    /\ running
    /\ pc[c] = "FORWARD"
    /\ Len(calls[c]) > 0
    /\ response \in answers_of(calls[c][1].url)
    /\ LET built == build_response(response)
       IN  /\ upstream' = [upstream EXCEPT ![c] = <<response>>]
           /\ http_response' = [http_response EXCEPT ![c] = <<built.response>>]
           /\ stdout' = [stdout EXCEPT ![c] = @ \o built.stdout]
    /\ pc' = [pc EXCEPT ![c] = "ENCODE"]
    /\ UNCHANGED <<relayVars, wireVars, buffer, http_request, calls,
                   encrypted_response, filt, codec, client>>

\* a Forwarder that sends the request again when the call failed
UpstreamFail_retry(c) ==
    /\ running
    /\ pc[c] = "FORWARD"
    /\ Len(calls[c]) > 0
    /\ calls' = [calls EXCEPT ![c] = Append(@, calls[c][1])]
    /\ stdout' = [stdout EXCEPT ![c] = Append(@, "HTTP request failed: reqwest::Error")]
    /\ UNCHANGED <<relayVars, wireVars, pc, buffer, http_request,
                   upstream, http_response, encrypted_response, filt, codec, client>>

\* send() or bytes() returns an error
UpstreamFail(c) ==
    /\ running
    /\ pc[c] = "FORWARD"
    /\ Len(calls[c]) > 0
    /\ pc' = [pc EXCEPT ![c] = "FAILED"]
    /\ stdout' = [stdout EXCEPT ![c] = Append(@, "HTTP request failed: reqwest::Error")]
    /\ closed' = [closed EXCEPT ![c] = TRUE]
    /\ mainPc' = main_after_failure
    /\ UNCHANGED <<cst, inbuf, outbuf, buffer, http_request, calls,
                   upstream, http_response, encrypted_response, filt, codec, client>>

\* encrypt_response_object with a nonce from the random generator
Encode(c, nonce) ==
    /\ running
    /\ pc[c] = "ENCODE"
    /\ encrypted_response' = [encrypted_response EXCEPT ![c] =
                                 encrypt_response_object(http_response[c][1], nonce)]
    /\ pc' = [pc EXCEPT ![c] = "SEND_RESPONSE"]
    /\ UNCHANGED <<relayVars, wireVars, buffer, http_request, calls, upstream,
                   http_response, stdout, filt, codec, client>>

\* a relay that answers in the envelope of the request
response_frame_routed(encrypted) ==
    to_vec_ProxyRequest([proxy_url |-> ProxyUrl, request_object |-> encrypted])

\* the response frame: ProxyResponse { response_object }, serialized
response_frame(encrypted) ==
    to_vec_ProxyResponse([response_object |-> encrypted])

\* the response frame is serialized and written, the handler returns and
\* the stream is dropped
SendResponse(c) ==
    /\ running
    /\ pc[c] = "SEND_RESPONSE"
    /\ LET response_data == response_frame(encrypted_response[c])
       IN  outbuf' = [outbuf EXCEPT ![c] = @ \o response_data]
    /\ pc' = [pc EXCEPT ![c] = "DONE"]
    /\ closed' = [closed EXCEPT ![c] = TRUE]
    /\ stdout' = [stdout EXCEPT ![c] = Append(@, "Request completed")]
    /\ UNCHANGED <<relayVars, cst, inbuf, buffer, http_request, calls, upstream,
                   http_response, encrypted_response, filt, codec, client>>

Next ==
    \/ Bind
    \/ BindFail
    \/ \E c \in Conns : Accept(c)
    \/ \E c \in Conns : AcceptError(c)
    \/ \E c \in Conns : ClientConnect(c)
    \/ \E c \in Conns, frame \in ClientFrames : ClientSend(c, frame)
    \/ \E c \in Conns : ReadToEnd(c)
    \/ \E c \in Conns : ReadError(c)
    \/ \E c \in Conns : Decode(c)
    \/ \E c \in Conns : ForwardSend(c)
    \/ \E c \in Conns, response \in UpstreamResponses : UpstreamReply(c, response)
    \/ \E c \in Conns : UpstreamFail(c)
    \/ \E c \in Conns, nonce \in Nonces : Encode(c, nonce)
    \/ \E c \in Conns : SendResponse(c)

Spec == Init /\ [][Next]_vars

(***************************************************************************)
(* The Header Filter applied to one header name, as the Forwarder applies  *)
(* it: is_generic_header(key_lower).  The name and a case variant of it    *)
(* are drawn from FilterNames.                                             *)
(***************************************************************************)
AlwaysForwardable ==
    {"content-type", "content-length", "content-encoding", "cache-control",
     "expires", "etag", "last-modified", "date", "server", "connection",
     "keep-alive", "strict-transport-security", "x-content-type-options",
     "x-frame-options", "x-xss-protection"}

SuppressedPrefixes == {"anthropic-", "openai-", "x-ratelimit", "x-request-id"}
SuppressedExact == {"request-id", "cf-ray", "cf-cache-status", "via", "x-robots-tag"}

\* names that no arm of the filter mentions
UnlistedNames ==
    {"x-up", "set-cookie", "location", "retry-after", "content-typ",
     "content-type2", "anthropic", "openai", "viaduct", "cf-rayon", "x-rate"}

FilterNames ==
    AlwaysForwardable \cup SuppressedExact \cup UnlistedNames
        \cup {p \o t : p \in SuppressedPrefixes, t \in {"", "a", "-remaining"}}

\* the name s with the case of its i-th character changed
ToggleAt(s, i) ==
    LET ch == SubSeq(s, i, i)
    IN  SubSeq(s, 1, i - 1)
            \o (IF IsUpper(ch) THEN LowerChar(ch) ELSE UpperChar(ch))
            \o SubSeq(s, i + 1, Len(s))

\* the name s with its first letter and every letter after a hyphen in
\* upper case, as in "X-Request-Id"
RECURSIVE TitleCase(_, _)
TitleCase(s, i) ==
    IF i > Len(s) THEN ""
    ELSE (IF i = 1 \/ SubSeq(s, i - 1, i - 1) = "-"
          THEN UpperChar(SubSeq(s, i, i)) ELSE SubSeq(s, i, i))
             \o TitleCase(s, i + 1)

CaseVariants(s) ==
    {to_uppercase(s), TitleCase(s, 1)} \cup {ToggleAt(s, i) : i \in 1..Len(s)}

FilterInputs ==
    UNION {{[step |-> "input", name |-> n, variant |-> v] : v \in CaseVariants(n)} :
        n \in FilterNames}

\* the filter is asked about the name and about its variant
FilterApply ==
    /\ filt.step = "input"
    /\ LET g == is_generic_header(key_lower(filt.name))
           gv == is_generic_header(key_lower(filt.variant))
       IN  filt' = [step |-> "done", name |-> filt.name, variant |-> filt.variant,
                    value |-> g.value, stdout |-> g.stdout,
                    variant_value |-> gv.value]
    /\ UNCHANGED <<relayVars, wireVars, taskVars, codec, client>>

InitFilter ==
    /\ mainPc = "bind"
    /\ cst = [c \in Conns |-> "init"]
    /\ inbuf = [c \in Conns |-> <<>>]
    /\ outbuf = [c \in Conns |-> <<>>]
    /\ closed = [c \in Conns |-> FALSE]
    /\ pc = [c \in Conns |-> "NONE"]
    /\ buffer = [c \in Conns |-> <<>>]
    /\ http_request = [c \in Conns |-> <<>>]
    /\ calls = [c \in Conns |-> <<>>]
    /\ upstream = [c \in Conns |-> <<>>]
    /\ http_response = [c \in Conns |-> <<>>]
    /\ encrypted_response = [c \in Conns |-> <<>>]
    /\ stdout = [c \in Conns |-> <<>>]
    /\ filt \in FilterInputs
    /\ codec = CodecIdle
    /\ client = ClientIdle

NextFilter == FilterApply

SpecFilter == InitFilter /\ [][NextFilter]_vars

(***************************************************************************)
(* Properties of the Header Filter, checked under SpecFilter.              *)
(***************************************************************************)
HasPrefix(s, p) == \E k \in 0..Len(s) : SubSeq(s, 1, k) = p

\* the suppressed set: provider prefixes, rate-limit and request-id
\* headers, via, cf-ray, cf-cache-status and x-robots-tag
IsSuppressedName(s) ==
    \/ \E p \in SuppressedPrefixes : HasPrefix(s, p)
    \/ s \in SuppressedExact

C8_UnknownAllowed ==
    filt.step = "done" /\ filt.name \notin AlwaysForwardable
            /\ ~IsSuppressedName(filt.name) =>
        /\ filt.value = TRUE
        /\ filt.stdout = <<"Allowing unknown header: " \o filt.name>>

C8_FailOpen ==
    /\ []C8_UnknownAllowed
    /\ [][filt' # filt => UNCHANGED <<relayVars, wireVars, taskVars, codec, client>>]_vars

C8_Witness ==
    /\ filt.step = "done"
    /\ filt.name = "x-up"
    /\ filt.value = TRUE
    /\ Len(filt.stdout) = 1

(***************************************************************************)
(* The envelope codec applied to one value: the client encrypts a request  *)
(* and the relay decrypts it, or the relay encrypts a response and the     *)
(* client decrypts it.  Between the two the bytes may be tampered with.    *)
(***************************************************************************)
ReqC == [method |-> "PUT", url |-> "u",
         headers |-> ("a" :> "1" @@ "B" :> ""), body |-> <<0, 255>>]

CodecRequests == {ReqA, ReqB, ReqT, ReqC}

CodecResponses ==
    {build_response(RespA).response, build_response(RespB).response,
     [status_code |-> 599, headers |-> <<>>, body |-> <<255>>]}

CodecInputs ==
    {[step |-> "input", kind |-> "request", value |-> x, nonce |-> n] :
        x \in CodecRequests, n \in Nonces}
    \cup
    {[step |-> "input", kind |-> "response", value |-> x, nonce |-> n] :
        x \in CodecResponses, n \in Nonces}

\* encrypt_request_object on the client, encrypt_response_object on the relay
CodecEncrypt ==
    /\ codec.step = "input"
    /\ codec' = [step |-> "sealed", kind |-> codec.kind, value |-> codec.value,
                 nonce |-> codec.nonce, tampered |-> FALSE,
                 data |-> IF codec.kind = "request"
                          THEN encrypt_request_object(codec.value, codec.nonce)
                          ELSE encrypt_response_object(codec.value, codec.nonce)]
    /\ UNCHANGED <<relayVars, wireVars, taskVars, filt, client>>

\* one bit of the ciphertext or of the tag is flipped on the way
CodecTamper(i, k) ==
    /\ codec.step = "sealed"
    /\ ~codec.tampered
    /\ codec' = [codec EXCEPT !.tampered = TRUE, !.data = FlipAt(@, i, k)]
    /\ UNCHANGED <<relayVars, wireVars, taskVars, filt, client>>

\* decrypt_request_object on the relay, decrypt_response_object on the client
CodecDecrypt ==
    /\ codec.step = "sealed"
    /\ codec' = [step |-> "opened", kind |-> codec.kind, value |-> codec.value,
                 nonce |-> codec.nonce, tampered |-> codec.tampered,
                 data |-> codec.data,
                 result |-> IF codec.kind = "request"
                            THEN decrypt_request_object(codec.data)
                            ELSE decrypt_response_object(codec.data)]
    /\ UNCHANGED <<relayVars, wireVars, taskVars, filt, client>>

InitCodec ==
    /\ mainPc = "bind"
    /\ cst = [c \in Conns |-> "init"]
    /\ inbuf = [c \in Conns |-> <<>>]
    /\ outbuf = [c \in Conns |-> <<>>]
    /\ closed = [c \in Conns |-> FALSE]
    /\ pc = [c \in Conns |-> "NONE"]
    /\ buffer = [c \in Conns |-> <<>>]
    /\ http_request = [c \in Conns |-> <<>>]
    /\ calls = [c \in Conns |-> <<>>]
    /\ upstream = [c \in Conns |-> <<>>]
    /\ http_response = [c \in Conns |-> <<>>]
    /\ encrypted_response = [c \in Conns |-> <<>>]
    /\ stdout = [c \in Conns |-> <<>>]
    /\ filt = FilterIdle
    /\ codec \in CodecInputs
    /\ client = ClientIdle

\* the positions of the ciphertext and tag bytes of the sealed value
TamperPositions ==
    IF codec.step = "sealed" THEN (NonceLen + 1)..Len(codec.data) ELSE {}

NextCodec ==
    \/ CodecEncrypt
    \/ \E i \in TamperPositions, k \in 0..7 : CodecTamper(i, k)
    \/ CodecDecrypt

SpecCodec == InitCodec /\ [][NextCodec]_vars

\* the plaintext the receiving side's cipher returns for the sealed bytes
received_plaintext ==
    Aes256Gcm_decrypt(IF codec.kind = "request" THEN OBFUSCATION_KEY
                      ELSE client_OBFUSCATION_KEY,
                      SubSeq(codec.data, 1, NonceLen),
                      SubSeq(codec.data, NonceLen + 1, Len(codec.data)))

sent_plaintext ==
    IF codec.kind = "request" THEN to_vec_HttpRequest(codec.value)
    ELSE to_vec_HttpResponse(codec.value)

\* C9: decrypting what was encrypted under the pre-shared key gives the
\* serialized value back, and the receiving side's decrypt function returns
\* a value equal to the one that was encrypted, for requests and responses.
C9_RoundTrip ==
    codec.step = "opened" /\ ~codec.tampered =>
        /\ received_plaintext = Ok(sent_plaintext)
        /\ codec.result.ok
        /\ codec.result.val = codec.value

C9_Witness ==
    /\ codec.step = "opened"
    /\ ~codec.tampered
    /\ codec.kind = "request"
    /\ codec.value = ReqA
    /\ codec.result.ok

\* C10: after one bit of the ciphertext or tag was changed, decrypt fails
\* with the decryption error and returns no plaintext.
C10_TamperRejected ==
    codec.step = "opened" /\ codec.tampered =>
        /\ ~codec.result.ok
        /\ codec.result.err = "Decryption failed"

C10_Witness ==
    /\ codec.step = "opened"
    /\ codec.tampered
    /\ codec.kind = "response"
    /\ ~codec.result.ok

(***************************************************************************)
(* Properties of the exchanges, checked under Spec.                        *)
(***************************************************************************)
AllowedSteps ==
    {<<"NONE", "AWAIT_REQUEST">>, <<"AWAIT_REQUEST", "DECODE">>,
     <<"DECODE", "FORWARD">>, <<"FORWARD", "ENCODE">>,
     <<"ENCODE", "SEND_RESPONSE">>, <<"SEND_RESPONSE", "DONE">>}
    \cup {<<s, "FAILED">> :
            s \in {"AWAIT_REQUEST", "DECODE", "FORWARD", "ENCODE", "SEND_RESPONSE"}}

\* the request the bytes bs decode to: envelope parsed, payload decrypted
decoded(bs) ==
    LET proxy_request == from_slice_ProxyRequest(bs)
    IN  IF ~proxy_request.ok THEN Err("envelope")
        ELSE decrypt_request_object(proxy_request.val.request_object)

C1_StepAllowed ==
    \A c \in Conns :
        /\ pc'[c] # pc[c] => <<pc[c], pc'[c]>> \in AllowedSteps
        /\ calls'[c] # calls[c] => pc[c] = "FORWARD" /\ pc'[c] = "FORWARD"
        /\ outbuf'[c] # outbuf[c] => pc[c] = "SEND_RESPONSE" /\ pc'[c] = "DONE"

C1_CallAfterDecode ==
    \A c \in Conns :
        Len(calls[c]) > 0 =>
            /\ decoded(buffer[c]).ok
            /\ http_request[c] = <<decoded(buffer[c]).val>>

C1_WriteAfterEncrypt ==
    \A c \in Conns :
        Len(outbuf[c]) > 0 =>
            /\ Len(calls[c]) = 1
            /\ Len(upstream[c]) = 1
            /\ Len(http_response[c]) = 1
            /\ Len(encrypted_response[c]) > 0
            /\ decrypt_response_object(encrypted_response[c]).ok

\* C1: an exchange moves only along AWAIT_REQUEST, DECODE, FORWARD, ENCODE,
\* SEND_RESPONSE, DONE, or from one of these to FAILED; the outbound call is
\* issued only after the envelope was parsed and decrypted, and bytes are
\* written to the connection only after the call returned and the response
\* was encrypted.
C1_ExchangeOrder ==
    /\ [][C1_StepAllowed]_vars
    /\ [](C1_CallAfterDecode /\ C1_WriteAfterEncrypt)

C1_Witness ==
    \E c \in Conns :
        /\ pc[c] = "DONE"
        /\ Len(calls[c]) = 1
        /\ Len(outbuf[c]) > 0

\* everything the model holds about connection d is left as it is
exchange_unchanged(d) ==
    /\ cst'[d] = cst[d]
    /\ inbuf'[d] = inbuf[d]
    /\ outbuf'[d] = outbuf[d]
    /\ closed'[d] = closed[d]
    /\ pc'[d] = pc[d]
    /\ buffer'[d] = buffer[d]
    /\ http_request'[d] = http_request[d]
    /\ calls'[d] = calls[d]
    /\ upstream'[d] = upstream[d]
    /\ http_response'[d] = http_response[d]
    /\ encrypted_response'[d] = encrypted_response[d]
    /\ stdout'[d] = stdout[d]

C2_FailureLocal ==
    \A c \in Conns :
        pc[c] \in {"DECODE", "FORWARD"} /\ pc'[c] = "FAILED" =>
            /\ mainPc' = "accept"
            /\ \A d \in Conns \ {c} : exchange_unchanged(d)

\* while an exchange exists the relay process runs its accept loop, so
\* the tasks of the exchanges that have not ended go on being scheduled
C2_ServerKeepsRunning ==
    (\E d \in Conns : pc[d] # "NONE") => running

\* C2: a failure of one exchange in DECODE or FORWARD moves only that
\* exchange to FAILED: the other exchanges are left as they are and the
\* server stays in its accept loop, so that they can go on to DONE.
C2_FailureIsolated ==
    /\ [][C2_FailureLocal]_vars
    /\ []C2_ServerKeepsRunning

C2_Witness ==
    \E c, d \in Conns :
        /\ c # d
        /\ pc[c] = "FAILED"
        /\ Len(buffer[c]) > 0
        /\ pc[d] = "DONE"
        /\ Len(outbuf[d]) > 0
        /\ mainPc = "accept"

\* how an exchange must end given only what its own peer sent and what its
\* own upstream answered
own_outcome(c) ==
    IF Len(inbuf[c]) = 0 THEN "FAILED"
    ELSE IF ~decoded(inbuf[c]).ok THEN "FAILED"
    ELSE IF ~build_call(decoded(inbuf[c]).val).ok THEN "FAILED"
    ELSE IF Len(upstream[c]) = 0 THEN "FAILED"
    ELSE "DONE"

\* the response the peer of connection c reads from its connection
received(c) ==
    LET proxy_response == from_slice_ProxyResponse(outbuf[c])
    IN  IF ~proxy_response.ok THEN Err("envelope")
        ELSE decrypt_response_object(proxy_response.val.response_object)

C3_OwnBytesOnly ==
    \A c \in Conns :
        /\ pc[c] \notin Terminal => Len(outbuf[c]) = 0
        /\ pc[c] \in Terminal => pc[c] = own_outcome(c)
        /\ pc[c] = "FAILED" => Len(outbuf[c]) = 0
        /\ pc[c] = "DONE" =>
              /\ calls[c] = <<build_call(decoded(inbuf[c]).val).val>>
              /\ upstream[c][1] \in answers_of(calls[c][1].url)
              /\ received(c).ok
              /\ received(c).val = build_response(upstream[c][1]).response

exchange_changed(c) == ~exchange_unchanged(c)

C3_OneExchangePerStep ==
    \A c, d \in Conns : c # d => ~(exchange_changed(c) /\ exchange_changed(d))

\* C3: what is written to a connection is derived only from the request
\* received on that connection and from the answer to that request's own
\* outbound call; how an exchange ends is determined by its own input, and
\* no step touches the data of two exchanges.
C3_Isolation ==
    /\ []C3_OwnBytesOnly
    /\ [][C3_OneExchangePerStep]_vars

C3_Witness ==
    \E c, d \in Conns :
        /\ c # d
        /\ pc[c] = "DONE"
        /\ pc[d] = "DONE"
        /\ inbuf[c] # inbuf[d]
        /\ outbuf[c] # outbuf[d]
        /\ http_request[c] = <<ReqA>>
        /\ http_request[d] = <<ReqB>>

\* C4: whatever the other exchanges are doing, a connection that waits to
\* be accepted can be accepted, and accepting it starts its exchange and
\* touches no other exchange.
C4_AcceptPossible ==
    \A c \in Conns :
        running /\ cst[c] \in {"connected", "shutdown"} /\ pc[c] = "NONE" =>
            ENABLED Accept(c)

C4_AcceptSpawns ==
    \A c \in Conns :
        pc[c] = "NONE" /\ pc'[c] # "NONE" =>
            /\ pc'[c] = "AWAIT_REQUEST"
            /\ mainPc' = "accept"
            /\ \A d \in Conns \ {c} : exchange_unchanged(d)

C4_AcceptNeverBlocks ==
    /\ []C4_AcceptPossible
    /\ [][C4_AcceptSpawns]_vars

C4_Witness ==
    \E c, d \in Conns :
        /\ c # d
        /\ pc[c] = "AWAIT_REQUEST"
        /\ cst[c] = "connected"
        /\ pc[d] = "FORWARD"
        /\ Len(calls[d]) = 1

\* the filter's answer for a header name as it arrived from the upstream
forwardable(wire_name) == is_generic_header(to_lowercase(wire_name)).value

\* C5: the headers of the HttpResponse are exactly the upstream response
\* headers for which the Header Filter returns forwardable.
C5_HeadersExactlyForwardable ==
    \A c \in Conns :
        Len(http_response[c]) = 1 =>
            LET up == upstream[c][1].headers
                hs == http_response[c][1].headers
            IN  /\ \A i \in 1..Len(up) :
                      forwardable(up[i].name) => to_lowercase(up[i].name) \in DOMAIN hs
                /\ \A k \in DOMAIN hs :
                      \E i \in 1..Len(up) :
                          to_lowercase(up[i].name) = k /\ forwardable(up[i].name)

(***************************************************************************)
(* The decrypt functions applied to an input cut short: every prefix of a  *)
(* sealed request is given to the relay and every prefix of a sealed       *)
(* response to the client, the empty prefix and the whole value included.  *)
(***************************************************************************)
sealed_value(kind, value, nonce) ==
    IF kind = "request" THEN encrypt_request_object(value, nonce)
    ELSE encrypt_response_object(value, nonce)

TruncInputs ==
    UNION {{[step |-> "sealed", kind |-> i.kind, value |-> i.value,
             nonce |-> i.nonce, tampered |-> FALSE,
             data |-> SubSeq(sealed_value(i.kind, i.value, i.nonce), 1, n)] :
                n \in 0..Len(sealed_value(i.kind, i.value, i.nonce))} :
           i \in CodecInputs}

InitTrunc ==
    /\ mainPc = "bind"
    /\ cst = [c \in Conns |-> "init"]
    /\ inbuf = [c \in Conns |-> <<>>]
    /\ outbuf = [c \in Conns |-> <<>>]
    /\ closed = [c \in Conns |-> FALSE]
    /\ pc = [c \in Conns |-> "NONE"]
    /\ buffer = [c \in Conns |-> <<>>]
    /\ http_request = [c \in Conns |-> <<>>]
    /\ calls = [c \in Conns |-> <<>>]
    /\ upstream = [c \in Conns |-> <<>>]
    /\ http_response = [c \in Conns |-> <<>>]
    /\ encrypted_response = [c \in Conns |-> <<>>]
    /\ stdout = [c \in Conns |-> <<>>]
    /\ filt = FilterIdle
    /\ codec \in TruncInputs
    /\ client = ClientIdle

NextTrunc == CodecDecrypt

SpecTrunc == InitTrunc /\ [][NextTrunc]_vars

\* the error of the length check of the side that decrypts
TruncatedCiphertext ==
    IF codec.kind = "request" THEN "Invalid encrypted data: too short"
    ELSE "Invalid encrypted response: too short"

\* C11: decrypt rejects every input shorter than 12 bytes, the empty input
\* included, with the too-short error (the error of the length check, not
\* the cipher's), and an input of 12 bytes or more never gets that error.
C11_Truncation ==
    codec.step = "opened" =>
        IF Len(codec.data) < 12
        THEN codec.result = Err(TruncatedCiphertext)
        ELSE codec.result.ok \/ codec.result.err # TruncatedCiphertext

C11_Witness ==
    /\ codec.step = "opened"
    /\ Len(codec.data) = 11
    /\ codec.result = Err("Invalid encrypted data: too short")

(***************************************************************************)
(* Nonces of the encryptions under the pre-shared key.                     *)
(***************************************************************************)
\* the nonce in front of a sealed value
nonce_of(encrypted_data) == SubSeq(encrypted_data, 1, NonceLen)

\* the connections whose response the relay has encrypted
sealed_responses == {c \in Conns : encrypted_response[c] # <<>>}

SixVerbs == {"GET", "POST", "PUT", "DELETE", "PATCH", "HEAD"}

\* the exchange on connection c decoded a request whose method, in upper
\* case as the Forwarder compares it, is none of the six verbs
unsupported(c) ==
    /\ http_request[c] # <<>>
    /\ to_uppercase(http_request[c][1].method) \notin SixVerbs

\* C13: a decrypted request with a method outside the six verbs makes the
\* Forwarder fail with the unsupported-method error and no outbound call is
\* ever issued for that exchange: its call count stays zero, no upstream
\* answer is taken and the exchange ends FAILED.
C13_UnsupportedMethod ==
    \A c \in Conns :
        unsupported(c) =>
            /\ Len(calls[c]) = 0
            /\ upstream[c] = <<>>
            /\ pc[c] \in {"FORWARD", "FAILED"}
            /\ pc[c] = "FAILED" =>
                  stdout[c][Len(stdout[c])] =
                      "HTTP request failed: Unsupported HTTP method: "
                          \o to_uppercase(http_request[c][1].method)

C13_Witness ==
    \E c \in Conns :
        /\ http_request[c] = <<ReqT>>
        /\ pc[c] = "FAILED"
        /\ Len(calls[c]) = 0

\* the Forwarder was invoked for connection c with a supported method and
\* has returned, with a response or with an error of the call
forwarder_returned(c) ==
    /\ http_request[c] # <<>>
    /\ ~unsupported(c)
    /\ pc[c] # "FORWARD"

\* C14: an exchange never has more than one outbound call; when the
\* Forwarder was invoked with a supported method and has returned, with a
\* response or with a failure, it has issued exactly one call, the one built
\* from the decoded request.
C14_OneCallPerInvocation ==
    \A c \in Conns :
        /\ Len(calls[c]) <= 1
        /\ forwarder_returned(c) =>
              /\ Len(calls[c]) = 1
              /\ calls[c][1] = build_call(http_request[c][1]).val

\* a step never adds a call to an exchange that already has one
C14_NoRetryStep ==
    \A c \in Conns : Len(calls[c]) > 0 => calls'[c] = calls[c]

C14_ExactlyOnce == [][C14_NoRetryStep]_vars /\ []C14_OneCallPerInvocation

C14_Witness ==
    \E c, d \in Conns :
        /\ pc[c] = "FAILED" /\ Len(calls[c]) = 1
        /\ pc[d] = "DONE" /\ Len(calls[d]) = 1

(***************************************************************************)
(* The empty request on the stream transport.                              *)
(***************************************************************************)
\* the peer of connection c closed its write side without sending a byte
sent_nothing(c) == cst[c] = "shutdown" /\ inbuf[c] = <<>>

\* C15: a connection whose read-to-end yields zero bytes ends at once as an
\* empty request: the exchange never enters DECODE or a later state, no
\* request is decoded, no outbound call is issued, nothing is written to
\* the connection, the handler prints the empty-request line and returns,
\* and the server is still in its loop and accepts every pending connection.
C15_EmptyRequestNoOp ==
    \A c \in Conns :
        sent_nothing(c) =>
            /\ pc[c] \in {"NONE", "AWAIT_REQUEST", "FAILED"}
            /\ http_request[c] = <<>>
            /\ Len(calls[c]) = 0
            /\ outbuf[c] = <<>>
            /\ pc[c] = "FAILED" =>
                  /\ stdout[c] = <<"New connection", "Empty request">>
                  /\ closed[c]
                  /\ running
                  /\ \A d \in Conns :
                        cst[d] \in {"connected", "shutdown"} /\ pc[d] = "NONE"
                            => ENABLED Accept(d)

C15_Witness ==
    \E c, d \in Conns :
        /\ sent_nothing(c) /\ pc[c] = "FAILED"
        /\ c < d /\ pc[d] = "DONE" /\ outbuf[d] # <<>>

(***************************************************************************)
(* What the peer of a failed exchange gets.                                *)
(***************************************************************************)
\* the exchange on connection c had a non-empty request, failed, and the
\* relay has dropped the connection
failed_with_request(c) ==
    /\ pc[c] = "FAILED"
    /\ inbuf[c] # <<>>
    /\ closed[c]

\* C16: when an exchange with a non-empty request fails, the relay has
\* written a failure response to the connection before it ends; a close
\* without any response byte happens only for the empty request.
C16_FailureSurfaced ==
    \A c \in Conns : failed_with_request(c) => outbuf[c] # <<>>

(***************************************************************************)
(* The response frame on the stream transport.                             *)
(***************************************************************************)
\* the relay wrote to connection c
wrote(c) == outbuf[c] # <<>>

single_response_frame(c) ==
    LET frame == from_slice_ProxyResponse(outbuf[c])
    IN  /\ frame.ok
        /\ DOMAIN frame.val = {"response_object"}
        /\ to_vec_ProxyResponse(frame.val) = outbuf[c]
        /\ frame.val.response_object = encrypted_response[c]
        /\ Len(frame.val.response_object) >= NonceLen + TagLen
        /\ decrypt_response_object(frame.val.response_object) = Ok(http_response[c][1])

\* C17, amended: whatever the relay writes to a connection is a single
\* ProxyResponse frame with the one field response_object (no proxy_url),
\* holding nonce, ciphertext and tag of the encrypted response; it is
\* written in the step that ends the exchange and drops the connection.
C17_ResponseFrame ==
    \A c \in Conns :
        wrote(c) => single_response_frame(c) /\ pc[c] = "DONE" /\ closed[c]

\* nothing is written to a connection the relay has dropped
C17_NoSecondFrame ==
    \A c \in Conns : closed[c] => outbuf'[c] = outbuf[c] /\ closed'[c]

WireInputs ==
    {[step |-> "pair", a |-> a, b |-> b, na |-> na, nb |-> nb] :
        a \in CodecRequests, b \in CodecRequests, na \in Nonces, nb \in Nonces}

\* both clients build their frame: lines 94-127 of utils/proxy/mod.rs
WireFrames ==
    /\ codec.step = "pair"
    /\ codec' = [step |-> "framed", a |-> codec.a, b |-> codec.b,
                 fa |-> request_frame(codec.a, codec.na),
                 fb |-> request_frame(codec.b, codec.nb)]
    /\ UNCHANGED <<relayVars, wireVars, taskVars, filt, client>>

InitWire ==
    /\ mainPc = "bind"
    /\ cst = [c \in Conns |-> "init"]
    /\ inbuf = [c \in Conns |-> <<>>]
    /\ outbuf = [c \in Conns |-> <<>>]
    /\ closed = [c \in Conns |-> FALSE]
    /\ pc = [c \in Conns |-> "NONE"]
    /\ buffer = [c \in Conns |-> <<>>]
    /\ http_request = [c \in Conns |-> <<>>]
    /\ calls = [c \in Conns |-> <<>>]
    /\ upstream = [c \in Conns |-> <<>>]
    /\ http_response = [c \in Conns |-> <<>>]
    /\ encrypted_response = [c \in Conns |-> <<>>]
    /\ stdout = [c \in Conns |-> <<>>]
    /\ filt = FilterIdle
    /\ codec \in WireInputs
    /\ client = ClientIdle

NextWire == WireFrames

SpecWire == InitWire /\ [][NextWire]_vars

\* the fields of a frame other than the sealed payload
plaintext_part(frame) ==
    LET envelope == from_slice_ProxyRequest(frame).val
    IN  [f \in DOMAIN envelope \ {"request_object"} |-> envelope[f]]

\* the byte string sub occurs in bs
occurs_in(sub, bs) ==
    \E i \in 1..(Len(bs) - Len(sub) + 1) : SubSeq(bs, i, i + Len(sub) - 1) = sub

\* destination URL, header values (the API key among them) and body of a
\* request, as far as they are at least two bytes long
secrets_of(r) ==
    {x \in {as_bytes(r.url), r.body} \cup {as_bytes(r.headers[k]) : k \in DOMAIN r.headers} :
        Len(x) >= 2}

\* the frame shows proxy_url and nothing of the request r, which is what
\* the payload decrypts to
only_proxy_url_visible(frame, r) ==
    /\ from_slice_ProxyRequest(frame).ok
    /\ plaintext_part(frame) = [proxy_url |-> ProxyUrl]
    /\ \A x \in secrets_of(r) : ~occurs_in(x, frame)
    /\ decrypt_request_object(from_slice_ProxyRequest(frame).val.request_object) = Ok(r)

\* C18: proxy_url is the only field of the request frame outside the
\* encrypted payload: the frames of two requests sent through the same relay
\* have the same plaintext part, whatever their URL, API key, headers and
\* body, and these occur in the frame only inside the payload.
C18_OnlyProxyUrlVisible ==
    codec.step = "framed" =>
        /\ plaintext_part(codec.fa) = plaintext_part(codec.fb)
        /\ only_proxy_url_visible(codec.fa, codec.a)
        /\ only_proxy_url_visible(codec.fb, codec.b)

C18_Witness ==
    /\ codec.step = "framed"
    /\ codec.a = ReqA /\ codec.b = ReqC
    /\ codec.fa # codec.fb
    /\ plaintext_part(codec.fa) = plaintext_part(codec.fb)

(***************************************************************************)
(* The command-line client xllm: main of src/xllm/src/main.rs.  Its        *)
(* arguments and the configuration file it finds are the inputs.           *)
(***************************************************************************)
\* models::claude::parse_model: the model of a name, or the process exits
parse_model(name) ==
    IF name = <<>> THEN [exit |-> FALSE, val |-> <<>>]
    ELSE CASE name[1] = "opus4" -> [exit |-> FALSE, val |-> <<"claude-opus-4-20250514">>]
           [] name[1] = "sonnet4" -> [exit |-> FALSE, val |-> <<"claude-sonnet-4-20250514">>]
           [] name[1] = "sonnet3" -> [exit |-> FALSE, val |-> <<"claude-3-7-sonnet-latest">>]
           [] name[1] = "haiku3" -> [exit |-> FALSE, val |-> <<"claude-3-5-haiku-latest">>]
           [] OTHER -> [exit |-> TRUE, stderr |-> "Invalid model '" \o name[1] \o "'"]

\* genconfig::get_model_config
get_model_config(config, model_name) ==
    IF model_name \in {"opus4", "sonnet4", "sonnet3", "haiku3"}
    THEN IF config.models.claude # <<>>
         THEN Ok(config.models.claude[1])
         ELSE Err("Claude configuration not found for model: " \o model_name)
    ELSE Err("Unknown model: " \o model_name)

\* utils::proxy::proxy_config_true, and the same test in main
proxy_config_true(config) ==
    IF config.global = <<>> THEN FALSE ELSE config.global[1].proxy

\* the configuration files the client may find
ClaudeConfigs ==
    {[model |-> "claude-sonnet-4-20250514", max_tokens |-> 1024,
      url |-> "http://a", anthropic_api_key |-> "ka"]}

GlobalConfigs ==
    {[proxy |-> p, proxy_url |-> u] : p \in BOOLEAN, u \in {"", ProxyUrl}}

Configs ==
    {[global |-> g, models |-> [claude |-> m]] :
        g \in {<<>>} \cup {<<x>> : x \in GlobalConfigs},
        m \in {<<>>} \cup {<<x>> : x \in ClaudeConfigs}}

ModelArgs == {<<>>, <<"opus4">>, <<"sonnet4">>, <<"sonnet3">>, <<"haiku3">>, <<"gpt4">>}

\* --init, --model, --file and the configuration file (none when missing)
ClientInputs ==
    {[pc |-> "start", init |-> i, model_str |-> m, file |-> f, config_file |-> cf,
      model_override |-> <<>>, claude_config |-> <<>>, sent |-> <<>>,
      stderr |-> <<>>, code |-> -1] :
        i \in BOOLEAN, m \in ModelArgs, f \in {"none", "readable", "missing"},
        cf \in {<<>>} \cup {<<x>> : x \in Configs}}

\* the process ends with an exit code
exited(code, line) ==
    [client EXCEPT !.pc = "exited", !.code = code,
                   !.stderr = IF line = "" THEN @ ELSE Append(@, line)]

\* --init: create_default_config, then main returns or exits
ClientInitConfig(ok) ==
    /\ client.pc = "start"
    /\ client.init
    /\ client' = IF ok THEN exited(0, "") ELSE exited(1, "Failed to create config")
    /\ UNCHANGED <<relayVars, wireVars, taskVars, filt, codec>>

\* parse_model(model_str)
ClientParseModel ==
    /\ client.pc = "start"
    /\ ~client.init
    /\ LET model == parse_model(client.model_str)
       IN  client' = IF model.exit THEN exited(1, model.stderr)
                     ELSE [client EXCEPT !.pc = "read_file", !.model_override = model.val]
    /\ UNCHANGED <<relayVars, wireVars, taskVars, filt, codec>>

\* fs::read_to_string of --file
ClientReadFile ==
    /\ client.pc = "read_file"
    /\ client' = IF client.file = "missing" THEN exited(1, "Failed to read file")
                 ELSE [client EXCEPT !.pc = "load_config"]
    /\ UNCHANGED <<relayVars, wireVars, taskVars, filt, codec>>

\* load_config and get_model_config
ClientLoadConfig ==
    /\ client.pc = "load_config"
    /\ client' =
         IF client.config_file = <<>> THEN exited(1, "Failed to load configuration")
         ELSE LET model_name == IF client.model_str # <<>> THEN client.model_str[1]
                                ELSE "sonnet4"
                  model_provider == get_model_config(client.config_file[1], model_name)
              IN  IF ~model_provider.ok THEN exited(1, model_provider.err)
                  ELSE [client EXCEPT !.pc = "transport",
                                      !.claude_config = <<model_provider.val>>]
    /\ UNCHANGED <<relayVars, wireVars, taskVars, filt, codec>>

\* the transport main uses: call_claude_api, whatever the configuration
transport_of(config) == "direct"

\* the proxy warning, then the request is sent
ClientSendRequest ==
    /\ client.pc = "transport"
    /\ LET config == client.config_file[1]
           warning == IF proxy_config_true(config)
                      THEN <<"Warning: Proxy functionality is only available when building from source.",
                             "Using direct Claude API instead.">>
                      ELSE <<>>
           transport == transport_of(config)
       IN  client' = [client EXCEPT
                         !.pc = "calling",
                         !.stderr = @ \o warning,
                         !.sent = Append(@,
                             [transport |-> transport,
                              to |-> IF transport = "direct"
                                     THEN client.claude_config[1].url \o "/v1/messages"
                                     ELSE config.global[1].proxy_url])]
    /\ UNCHANGED <<relayVars, wireVars, taskVars, filt, codec>>

\* call_claude_api returns: the text is rendered, or the error is printed
\* and the process exits
ClientResult(ok) ==
    /\ client.pc = "calling"
    /\ client' = IF ok THEN exited(0, "") ELSE exited(1, "Error")
    /\ UNCHANGED <<relayVars, wireVars, taskVars, filt, codec>>

InitClient ==
    /\ mainPc = "bind"
    /\ cst = [c \in Conns |-> "init"]
    /\ inbuf = [c \in Conns |-> <<>>]
    /\ outbuf = [c \in Conns |-> <<>>]
    /\ closed = [c \in Conns |-> FALSE]
    /\ pc = [c \in Conns |-> "NONE"]
    /\ buffer = [c \in Conns |-> <<>>]
    /\ http_request = [c \in Conns |-> <<>>]
    /\ calls = [c \in Conns |-> <<>>]
    /\ upstream = [c \in Conns |-> <<>>]
    /\ http_response = [c \in Conns |-> <<>>]
    /\ encrypted_response = [c \in Conns |-> <<>>]
    /\ stdout = [c \in Conns |-> <<>>]
    /\ filt = FilterIdle
    /\ codec = CodecIdle
    /\ client \in ClientInputs

NextClient ==
    \/ \E ok \in BOOLEAN : ClientInitConfig(ok)
    \/ ClientParseModel
    \/ ClientReadFile
    \/ ClientLoadConfig
    \/ ClientSendRequest
    \/ \E ok \in BOOLEAN : ClientResult(ok)

SpecClient == InitClient /\ [][NextClient]_vars

\* the configuration enables the proxy: global.proxy = true with a
\* non-empty proxy_url
proxy_enabled(config) ==
    /\ config.global # <<>>
    /\ config.global[1].proxy
    /\ config.global[1].proxy_url # ""

\* C19: the client picks its transport from the configuration: with the
\* proxy enabled every request goes through the relay and none directly to
\* the provider, and with the proxy disabled or no global section the
\* request goes directly.
C19_TransportFollowsConfig ==
    \A i \in 1..Len(client.sent) :
        LET config == client.config_file[1]
        IN  /\ proxy_enabled(config) => client.sent[i].transport = "relay"
            /\ ~proxy_config_true(config) => client.sent[i].transport = "direct"

(***************************************************************************)
(* What ends the relay process.                                            *)
(***************************************************************************)
\* something went wrong after the bind: accept returned an error, a
\* handler returned an error, or an exchange failed
something_failed ==
    \E c \in Conns : cst[c] \in {"aborted", "reset"} \/ pc[c] = "FAILED"

\* no step takes main out of its accept loop
C20_LoopNeverLeft == mainPc = "accept" => mainPc' = "accept"

\* main has ended only if the bind failed, before any connection existed
C20_ExitOnlyFromBind ==
    mainPc = "exit" => \A c \in Conns : cst[c] = "init" /\ pc[c] = "NONE"

\* after any failure the server is in its loop and takes every connection
\* that waits to be accepted
C20_StillServing ==
    something_failed =>
        /\ mainPc = "accept"
        /\ \A d \in Conns :
              cst[d] \in {"connected", "shutdown"} /\ pc[d] = "NONE" => ENABLED Accept(d)

\* C20: the relay process ends only when the bind fails at startup; once
\* bound, no accept error, handler error, decode failure or forward failure
\* takes main out of the accept loop, and later connections are accepted.
C20_OnlyBindIsFatal ==
    /\ [][C20_LoopNeverLeft]_vars
    /\ []C20_ExitOnlyFromBind
    /\ []C20_StillServing

C20_Witness ==
    \E c, d \in Conns :
        /\ c < d
        /\ cst[c] = "reset" /\ pc[c] = "FAILED"
        /\ pc[d] = "DONE" /\ outbuf[d] # <<>>
        /\ mainPc = "accept"

(***************************************************************************)
(* Progress of the exchanges.  The runtime schedules every spawned         *)
(* handler, so the steps of handle_client that wait for nothing outside    *)
(* the relay are taken when they are enabled.  Decode and Encode are       *)
(* enabled exactly while the exchange is at DECODE or ENCODE and always    *)
(* leave that position, so their weak fairness is that the exchange is     *)
(* again and again not there.  The steps of the peer (connect, send,       *)
(* reset) and of the upstream (answer, failure) are not under the relay's  *)
(* control and get no fairness; the code sets no timeout on read_to_end    *)
(* or on send().                                                           *)
(***************************************************************************)
HandlerFairness ==
    \A c \in Conns :
        /\ WF_vars(Accept(c))
        /\ WF_vars(ReadToEnd(c))
        /\ []<>(pc[c] # "DECODE")
        /\ WF_vars(ForwardSend(c))
        /\ []<>(pc[c] # "ENCODE")
        /\ WF_vars(SendResponse(c))

SpecLive == Init /\ [][Next]_vars /\ HandlerFairness

\* C21: every accepted exchange eventually reaches DONE or FAILED: one
\* that waits for the end of its peer's input leaves AWAIT_REQUEST, and one
\* that waits for its upstream leaves FORWARD, whatever peer and upstream do.
C21_EventuallyTerminal ==
    \A c \in Conns :
        /\ (pc[c] = "AWAIT_REQUEST") ~> (pc[c] \in Terminal)
        /\ (pc[c] = "FORWARD") ~> (pc[c] \in Terminal)

(***************************************************************************)
(* A peer that goes away while its exchange is in progress.  The handler   *)
(* does not look at the connection between read_to_end and write_all, so   *)
(* it learns of the drop at the write at the earliest: write_all either    *)
(* hands the bytes to the socket or returns an error.                      *)
(***************************************************************************)
\* the peer drops its connection after it sent its request
ClientDrop(c) ==
    /\ cst[c] = "shutdown"
    /\ pc[c] \in {"DECODE", "FORWARD", "ENCODE", "SEND_RESPONSE"}
    /\ cst' = [cst EXCEPT ![c] = "dropped"]
    /\ UNCHANGED <<relayVars, inbuf, outbuf, closed, taskVars, filt, codec, client>>

\* write_all returns Err on the dropped connection: the handler returns
\* the error and its task prints it
WriteError(c) ==
    /\ running
    /\ pc[c] = "SEND_RESPONSE"
    /\ cst[c] = "dropped"
    /\ pc' = [pc EXCEPT ![c] = "FAILED"]
    /\ stdout' = [stdout EXCEPT ![c] = Append(@, "Error handling client")]
    /\ closed' = [closed EXCEPT ![c] = TRUE]
    /\ UNCHANGED <<relayVars, cst, inbuf, outbuf, buffer, http_request, calls,
                   upstream, http_response, encrypted_response, filt, codec, client>>

NextDrop ==
    \/ Next
    \/ \E c \in Conns : ClientDrop(c)
    \/ \E c \in Conns : WriteError(c)

SpecDrop == Init /\ [][NextDrop]_vars

\* once the peer of connection c is gone, no outbound call is issued or
\* completed for it and nothing is written to it
C22_AbandonStep ==
    \A c \in Conns :
        cst[c] = "dropped" =>
            /\ calls'[c] = calls[c]
            /\ upstream'[c] = upstream[c]
            /\ http_response'[c] = http_response[c]
            /\ outbuf'[c] = outbuf[c]

\* C22: when the client drops the inbound connection while its exchange is
\* in progress, the in-flight outbound call and the pending response write
\* are abandoned.
C22_DropAbandons == [][C22_AbandonStep]_vars

\* C23: a request whose method is none of the six verbs is rejected when
\* it is decoded: it never passes DECODE and never reaches the Forwarder.
C23_RejectedAtDecode ==
    \A c \in Conns : ~unsupported(c)

authenticated(bs) ==
    LET envelope == from_slice_ProxyRequest(bs)
    IN  IF ~envelope.ok THEN Err("envelope")
        ELSE LET payload == envelope.val.request_object
             IN  IF Len(payload) < NonceLen THEN Err("short")
                 ELSE LET plaintext == Aes256Gcm_decrypt(OBFUSCATION_KEY,
                                           SubSeq(payload, 1, NonceLen),
                                           SubSeq(payload, NonceLen + 1, Len(payload)))
                      IN  IF ~plaintext.ok THEN Err("tag")
                          ELSE from_slice_HttpRequest(plaintext.val)

\* C25: an outbound call for a connection implies that the connection's
\* bytes parsed as an envelope, that the payload was at least 12 bytes,
\* passed authentication under the pre-shared key and deserialized to an
\* HttpRequest; method, url, headers and body of the call are those of that
\* plaintext, and the url is not taken from the envelope's proxy_url.
C25_CallsOnlyAuthenticated ==
    \A c \in Conns :
        Len(calls[c]) > 0 =>
            /\ authenticated(buffer[c]).ok
            /\ http_request[c] = <<authenticated(buffer[c]).val>>
            /\ calls[c][1] = [method |-> to_uppercase(http_request[c][1].method),
                              url |-> http_request[c][1].url,
                              headers |-> http_request[c][1].headers,
                              body |-> http_request[c][1].body]
            /\ calls[c][1].url # from_slice_ProxyRequest(buffer[c]).val.proxy_url

\* no exchange whose input fails authentication ever has a call
C25_RejectedNeverCalls ==
    \A c \in Conns :
        pc[c] \notin {"NONE", "AWAIT_REQUEST"} /\ ~authenticated(buffer[c]).ok =>
            Len(calls[c]) = 0 /\ http_request[c] = <<>>

C25_AuthenticatedOnly == C25_CallsOnlyAuthenticated /\ C25_RejectedNeverCalls

C25_Witness ==
    \E c, d \in Conns :
        /\ Len(calls[c]) = 1 /\ authenticated(buffer[c]).ok
        /\ buffer[d] = TamperedFrame /\ pc[d] = "FAILED" /\ Len(calls[d]) = 0

(***************************************************************************)
(* The client's call through the relay: call_claude_via_tcp_proxy of       *)
(* src/xllm/src/utils/proxy/mod.rs.                                        *)
(***************************************************************************)
\* serde_json::to_vec(&request) of a ClaudeRequest with one user message
to_vec_ClaudeRequest(x) ==
    ser_str("model") \o ser_str(x.model)
        \o ser_str("max_tokens") \o ser_u16(x.max_tokens)
        \o ser_str("messages") \o <<1>>
        \o ser_str("role") \o ser_str("user")
        \o ser_str("content") \o ser_str(x.content)

\* a ClaudeResponse as the provider serializes it
RECURSIVE ser_blocks(_)
ser_blocks(content) ==
    IF Len(content) = 0 THEN <<>>
    ELSE ser_str("text") \o ser_str(content[1].text) \o ser_blocks(Tail(content))

to_vec_ClaudeResponse(x) ==
    ser_str("content") \o <<Len(x.content)>> \o ser_blocks(x.content)

\* n content blocks starting at p, appended to content
RECURSIVE de_blocks(_, _, _, _)
de_blocks(bs, p, n, content) ==
    IF n = 0 THEN Read(content, p)
    ELSE LET p1 == de_field(bs, p, "text")
             t  == de_str(bs, p1)
         IN  IF p1 = 0 \/ ~t.ok THEN NoRead
             ELSE de_blocks(bs, t.next, n - 1, Append(content, [text |-> t.val]))

\* serde_json::from_slice::<ClaudeResponse>
from_slice_ClaudeResponse(bs) ==
    LET p1 == de_field(bs, 1, "content")
    IN  IF p1 = 0 \/ p1 > Len(bs) THEN Err("Failed to deserialize")
        ELSE LET blocks == de_blocks(bs, p1 + 1, bs[p1], <<>>)
             IN  IF ~blocks.ok THEN Err("Failed to deserialize")
                 ELSE IF blocks.next # Len(bs) + 1 THEN Err("Failed to deserialize")
                 ELSE Ok([content |-> blocks.val])

\* a client that takes every status below 400 for a success
is_success_lenient(status_code) == status_code < 400

\* the status test of the client: not (status < 200 or status >= 300)
is_success(status_code) == ~(status_code < 200 \/ status_code >= 300)

\* what call_claude_via_tcp_proxy returns for the bytes it read to the end
\* of the connection: lines 141-168
response_result(response_buffer) ==
    LET proxy_response == from_slice_ProxyResponse(response_buffer)
    IN  IF ~proxy_response.ok THEN Err("Failed to deserialize proxy response")
        ELSE LET response == decrypt_response_object(proxy_response.val.response_object)
             IN  IF ~response.ok THEN Err("Failed to decrypt response from proxy")
                 ELSE IF ~is_success(response.val.status_code)
                      THEN Err("API request failed with status")
                 ELSE LET claude_response == from_slice_ClaudeResponse(response.val.body)
                      IN  IF ~claude_response.ok
                          THEN Err("Failed to parse Claude API response")
                          ELSE IF Len(claude_response.val.content) > 0
                               THEN Ok(claude_response.val.content[1].text)
                               ELSE Err("No content in Claude response")

\* a reading of the configuration that falls back to the default address
\* when the proxy is on without one
get_proxy_url_default(config) ==
    IF config.global # <<>> /\ config.global[1].proxy
    THEN IF config.global[1].proxy_url = ""
         THEN [ok |-> TRUE, val |-> <<ProxyUrl>>]
         ELSE [ok |-> TRUE, val |-> <<config.global[1].proxy_url>>]
    ELSE [ok |-> TRUE, val |-> <<>>]

\* get_proxy_url: the proxy address of the configuration, none when the
\* proxy is off, an error when it is on without an address
get_proxy_url(config) ==
    IF config.global # <<>> /\ config.global[1].proxy
    THEN IF config.global[1].proxy_url = ""
         THEN Err("Proxy is enabled but proxy_url is empty in config")
         ELSE Ok(<<config.global[1].proxy_url>>)
    ELSE Ok(<<>>)

\* the first position of the character ch in s from position p on, or 0
RECURSIVE index_of(_, _, _)
index_of(s, ch, p) ==
    IF p > Len(s) THEN 0
    ELSE IF SubSeq(s, p, p) = ch THEN p
    ELSE index_of(s, ch, p + 1)

\* parse_proxy_url: "host:port" of a URL with a host and a port
parse_proxy_url(proxy_url) ==
    IF ~starts_with(proxy_url, "http://") THEN Err("Invalid proxy URL format")
    ELSE LET rest == SubSeq(proxy_url, 8, Len(proxy_url))
             colon == index_of(rest, ":", 1)
         IN  IF Len(rest) = 0 \/ colon = 1 THEN Err("No host in proxy URL")
             ELSE IF colon = 0 \/ colon = Len(rest) THEN Err("No port in proxy URL")
             ELSE Ok(rest)

\* the HttpRequest the client builds for a prompt: lines 68-100
client_http_request(claude_config, prompt) ==
    [method |-> "POST",
     url |-> claude_config.url \o "/v1/messages",
     headers |-> ("Content-Type" :> "application/json"
                  @@ "x-api-key" :> claude_config.anthropic_api_key
                  @@ "anthropic-version" :> "2023-06-01"),
     body |-> to_vec_ClaudeRequest([model |-> claude_config.model,
                                    max_tokens |-> claude_config.max_tokens,
                                    content |-> prompt])]

\* the global sections the call may be given
CallGlobals ==
    {<<>>} \cup {<<[proxy |-> p, proxy_url |-> u]>> :
                    p \in BOOLEAN, u \in {"", ProxyUrl, "http://p"}}

CallInputs ==
    {[pc |-> "call", config |-> [global |-> g, models |-> [claude |-> <<cc>>]],
      claude_config |-> cc, prompt |-> "hi", nonce |-> n,
      frame |-> <<>>, proxy_addr |-> "", connects |-> 0, written |-> <<>>,
      shut |-> FALSE, relay |-> "RUNNING", response |-> <<>>, intact |-> TRUE,
      wire_in |-> <<>>, closed |-> FALSE, result |-> <<>>] :
        g \in CallGlobals, cc \in ClaudeConfigs, n \in Nonces}

\* the call returns
returned(result) == [client EXCEPT !.pc = "returned", !.result = <<result>>]

\* lines 68-117: the request is built and encrypted, the proxy address is
\* taken from the configuration and parsed
CallPrepare ==
    /\ client.pc = "call"
    /\ LET http_request_ == client_http_request(client.claude_config, client.prompt)
           encrypted_request == encrypt_request_object(http_request_, client.nonce)
           proxy_url == get_proxy_url(client.config)
       IN  client' =
             IF ~proxy_url.ok THEN returned(Err(proxy_url.err))
             ELSE IF proxy_url.val = <<>> THEN returned(Err("Proxy URL not configured"))
             ELSE LET proxy_addr == parse_proxy_url(proxy_url.val[1])
                  IN  IF ~proxy_addr.ok THEN returned(Err(proxy_addr.err))
                      ELSE [client EXCEPT
                               !.pc = "connect",
                               !.proxy_addr = proxy_addr.val,
                               !.frame = to_vec_ProxyRequest(
                                   [proxy_url |-> proxy_url.val[1],
                                    request_object |-> encrypted_request])]
    /\ UNCHANGED <<relayVars, wireVars, taskVars, filt, codec>>

\* line 120: TcpStream::connect
CallConnect(ok) ==
    /\ client.pc = "connect"
    /\ client' = IF ok THEN [client EXCEPT !.pc = "write", !.connects = @ + 1]
                 ELSE [returned(Err("Failed to connect to TCP proxy")) EXCEPT
                          !.connects = @ + 1]
    /\ UNCHANGED <<relayVars, wireVars, taskVars, filt, codec>>

\* lines 126-129: the whole frame is written
CallWrite ==
    /\ client.pc = "write"
    /\ client' = [client EXCEPT !.pc = "shutdown", !.written = client.frame]
    /\ UNCHANGED <<relayVars, wireVars, taskVars, filt, codec>>

\* line 133: the write side is shut down
CallShutdown ==
    /\ client.pc = "shutdown"
    /\ client' = [client EXCEPT !.pc = "reading", !.shut = TRUE]
    /\ UNCHANGED <<relayVars, wireVars, taskVars, filt, codec>>

\* the upstream answers the relay may get for the client's request
CallBodies ==
    {to_vec_ClaudeResponse([content |-> <<>>]),
     to_vec_ClaudeResponse([content |-> <<[text |-> "hi"]>>]),
     to_vec_ClaudeResponse([content |-> <<[text |-> "a"], [text |-> "b"]>>]),
     <<123, 125>>}

CallResponses ==
    {[status_code |-> s, headers |-> <<>>, body |-> b] :
        s \in {199, 200, 299, 300, 404}, b \in CallBodies}

\* handle_client seen from the client: its read_to_end returns once the
\* client has shut down its write side; then the exchange either fails,
\* and the stream is dropped with nothing written, or it reaches DONE, and
\* the stream is dropped after the response frame was written.  On the way
\* to the client a bit of the frame may be changed.
RelayFails ==
    /\ client.shut
    /\ client.relay = "RUNNING"
    /\ client' = [client EXCEPT !.relay = "FAILED", !.closed = TRUE]
    /\ UNCHANGED <<relayVars, wireVars, taskVars, filt, codec>>

RelayDone(response, nonce, intact) ==
    /\ client.shut
    /\ client.relay = "RUNNING"
    /\ LET frame == response_frame(encrypt_response_object(response, nonce))
       IN  client' = [client EXCEPT
                         !.relay = "DONE",
                         !.response = <<response>>,
                         !.intact = intact,
                         !.wire_in = IF intact THEN frame
                                     ELSE FlipAt(frame, Len(frame), 0),
                         !.closed = TRUE]
    /\ UNCHANGED <<relayVars, wireVars, taskVars, filt, codec>>

\* lines 136-168: read_to_end returns when the relay has closed the
\* connection, and the bytes are turned into the result of the call
CallReadToEnd ==
    /\ client.pc = "reading"
    /\ client.closed
    /\ client' = returned(response_result(client.wire_in))
    /\ UNCHANGED <<relayVars, wireVars, taskVars, filt, codec>>

InitCall ==
    /\ mainPc = "bind"
    /\ cst = [c \in Conns |-> "init"]
    /\ inbuf = [c \in Conns |-> <<>>]
    /\ outbuf = [c \in Conns |-> <<>>]
    /\ closed = [c \in Conns |-> FALSE]
    /\ pc = [c \in Conns |-> "NONE"]
    /\ buffer = [c \in Conns |-> <<>>]
    /\ http_request = [c \in Conns |-> <<>>]
    /\ calls = [c \in Conns |-> <<>>]
    /\ upstream = [c \in Conns |-> <<>>]
    /\ http_response = [c \in Conns |-> <<>>]
    /\ encrypted_response = [c \in Conns |-> <<>>]
    /\ stdout = [c \in Conns |-> <<>>]
    /\ filt = FilterIdle
    /\ codec = CodecIdle
    /\ client \in CallInputs

NextCall ==
    \/ CallPrepare
    \/ \E ok \in BOOLEAN : CallConnect(ok)
    \/ CallWrite
    \/ CallShutdown
    \/ RelayFails
    \/ \E response \in CallResponses, nonce \in Nonces, intact \in BOOLEAN :
          RelayDone(response, nonce, intact)
    \/ CallReadToEnd

SpecCall == InitCall /\ [][NextCall]_vars

\* the text the client is to return for a response of the relay, if any
text_of(response) ==
    LET parsed == from_slice_ClaudeResponse(response.body)
    IN  IF /\ 200 <= response.status_code
           /\ response.status_code <= 299
           /\ parsed.ok
           /\ Len(parsed.val.content) >= 1
        THEN <<parsed.val.content[1].text>>
        ELSE <<>>

\* the call has read to end and returned
read_and_returned == client.pc = "returned" /\ client.relay # "RUNNING"

\* C26: client and relay do not block each other on the half-close
\* handshake, and the result of the call mirrors the relay's outcome.  The
\* client shuts down its write side only after the whole frame is written
\* and reads only after the shutdown; the relay acts only after the
\* shutdown; when the relay's exchange has ended the connection is closed,
\* so the client's read is never left waiting; the call returns Ok(text)
\* exactly when the relay reached DONE, its frame arrived intact, the status
\* is in 200..299 and the body holds a content block, text being the first
\* block's text; in every other case it returns an error.
C26_HandshakeAndResult ==
    /\ client.shut => (client.frame # <<>> /\ client.written = client.frame)
    /\ client.pc = "reading" => client.shut
    /\ client.relay # "RUNNING" => (client.shut /\ client.closed)
    /\ client.relay = "FAILED" => client.wire_in = <<>>
    /\ read_and_returned =>
          LET result == client.result[1]
              text == IF client.relay = "DONE" /\ client.intact
                      THEN text_of(client.response[1]) ELSE <<>>
          IN  /\ result.ok <=> text # <<>>
              /\ result.ok => result.val = text[1]

C26_Witness ==
    /\ read_and_returned
    /\ client.relay = "DONE"
    /\ client.result[1].ok
    /\ client.result[1].val = "hi"
    /\ client.response[1].status_code = 299

\* the values an upstream response carries for a name, whatever the letter
\* case, that have a text form, in the order they arrived
RECURSIVE texts_sent(_, _)
texts_sent(wire_headers, k) ==
    IF Len(wire_headers) = 0 THEN <<>>
    ELSE LET h == wire_headers[1]
             rest == texts_sent(Tail(wire_headers), k)
         IN  IF to_lowercase(h.name) = to_lowercase(k) /\ AllPrintable(h.value)
             THEN <<from_bytes(h.value)>> \o rest
             ELSE rest

\* the names an upstream response carries more than once
sent_twice(wire_headers) ==
    {to_lowercase(wire_headers[i].name) : i \in
        {i \in DOMAIN wire_headers : \E j \in DOMAIN wire_headers :
            /\ j # i
            /\ to_lowercase(wire_headers[j].name) = to_lowercase(wire_headers[i].name)}}

\* C27: the header mapping of every HttpResponse the Forwarder produces has
\* keys that are unique after case-normalization, and of the values the
\* upstream sent under one name, in any letter case, the mapping keeps the
\* last one written.
C27_UniqueKeysLastWins ==
    \A c \in Conns :
        Len(http_response[c]) > 0 =>
            LET headers == http_response[c][1].headers
                sent == upstream[c][1].headers
            IN  /\ \A k1, k2 \in DOMAIN headers :
                      to_lowercase(k1) = to_lowercase(k2) => k1 = k2
                /\ \A k \in DOMAIN headers :
                      LET texts == texts_sent(sent, k)
                      IN  /\ Len(texts) > 0
                          /\ headers[k] = texts[Len(texts)]

C27_Witness ==
    \E c \in Conns :
        /\ Len(http_response[c]) > 0
        /\ "etag" \in sent_twice(upstream[c][1].headers)
        /\ \E i, j \in DOMAIN upstream[c][1].headers :
              /\ upstream[c][1].headers[i].name = "ETag"
              /\ upstream[c][1].headers[j].name = "etag"
        /\ "etag" \in DOMAIN http_response[c][1].headers
        /\ http_response[c][1].headers["etag"] = "e2"

\* the proxy is switched on in the configuration of the call
call_proxy_enabled == client.config.global # <<>> /\ client.config.global[1].proxy

\* the configuration of the call has no proxy address
call_proxy_url_empty == client.config.global[1].proxy_url = ""

\* C28: get_proxy_url returns an error exactly when the proxy is enabled
\* and proxy_url is empty, Some(proxy_url) when the proxy is enabled and
\* proxy_url is not empty, and None when the proxy is disabled or the global
\* section is absent; when it yields an error or None the call connects to
\* no socket, writes nothing and returns an error.
C28_ProxyUrlCases ==
    LET proxy_url == get_proxy_url(client.config)
    IN  /\ ~proxy_url.ok <=> (call_proxy_enabled /\ call_proxy_url_empty)
        /\ (call_proxy_enabled /\ ~call_proxy_url_empty) =>
              /\ proxy_url.ok
              /\ proxy_url.val = <<client.config.global[1].proxy_url>>
        /\ ~call_proxy_enabled => (proxy_url.ok /\ proxy_url.val = <<>>)
        /\ (~call_proxy_enabled \/ call_proxy_url_empty) =>
              /\ client.connects = 0
              /\ client.written = <<>>
              /\ client.pc \in {"call", "returned"}
              /\ client.pc = "returned" => ~client.result[1].ok

C28_Witness ==
    /\ client.pc = "returned"
    /\ call_proxy_enabled
    /\ call_proxy_url_empty
    /\ client.connects = 0
    /\ client.result[1] = Err("Proxy is enabled but proxy_url is empty in config")

\* the name given with --model is none of the names parse_model knows
invalid_model_name ==
    /\ client.model_str # <<>>
    /\ client.model_str[1] \notin {"opus4", "sonnet4", "sonnet3", "haiku3"}

\* C29: malformed input that can be rejected with a result value never
\* terminates the process: the step in which parse_model is given an
\* invalid model name leaves the process running.
C29_ParseModelStep ==
    (client.pc = "start" /\ ~client.init /\ invalid_model_name) =>
        client'.pc # "exited"

C29_InvalidModelKeepsRunning == [][C29_ParseModelStep]_vars

=============================================================================
